---- MODULE Spec2Model ----
(***************************************************************************)
(* A model of tinyrs: the mesh loader (src/src/model.rs), the             *)
(* depth-tested rasterizer (src/src/renderer.rs, src/src/geometry.rs) and  *)
(* the square matrices (src/src/geometry.rs).                              *)
(*                                                                         *)
(* Text is modelled as sequences of one-character strings, so that the    *)
(* loader's splitting and number parsing are computed, not assumed.       *)
(* In the loader and the rasterizer f64 values are modelled by integers    *)
(* (and, where the code divides, by exact fractions num/den): every input *)
(* of the model is a small integer, for which the f64 sums and products   *)
(* of the code are exact.  The matrices compute in binary64 with its      *)
(* rounding, since their elimination divides and goes on computing with   *)
(* the rounded quotients.                                                  *)
(***************************************************************************)
EXTENDS Integers, Sequences, FiniteSets, TLC

VARIABLES
    \* Model::from_file (src/src/model.rs:188-224)
    vertices,   \* Vec<Vec3f> read so far
    normals,    \* Vec<Vec3f> read so far (normalized)
    textures,   \* Vec<VecUV2f> read so far
    faces,      \* Vec<Face> read so far
    lineNo,     \* number of lines taken from file.lines() so far
    lastLine,   \* the text of the line read last (<<>> before the first)
    result,     \* what from_file returned: Running, Ok(Model) or Err(RenderError)
    \* app and Renderer::render_triangle_fn (src/src/bin/tinyrs.rs:27-87,
    \* src/src/renderer.rs:57-91)
    resolution, \* Renderer.resolution: [width, height]
    zbuffer,    \* Vec<f64>, one depth per pixel, indexed from 0 by x + width*y
    pixels,     \* what the canvas holds at each pixel, indexed like zbuffer
    drawColor,  \* the canvas' current draw colour
    frame,      \* the calls of render_triangle_fn made in this frame, in order
    scan,       \* the pixels (x, y) the last call examined, in order
    rstatus,    \* Rendering, or the Err(String) that ended the frame loop
    \* the square matrices (src/src/geometry.rs:132-751)
    matrix,     \* the entries a matrix is built from, as a sequence of rows
    mcall,      \* the call made on it and what it returned
    \* Triangle (src/src/geometry.rs:78-131)
    triangle,   \* a Triangle as Triangle::new built it
    bcall,      \* the call of barycentric made on it and what it returned
    \* the frame loop of app, step by step (src/src/bin/tinyrs.rs:27-87)
    pc,         \* where app is: Clear, Faces, Drain, Present or Done
    mesh,       \* model.num_faces()
    face,       \* the face `for face in model.iter()` comes to next, from 1
    queue,      \* the events SDL holds for event_pump.poll_iter(), oldest first
    camera,     \* camera.z, counted in quarters (3.0 is 12)
    projection, \* the entry -1.0 / camera.z of the projection of this frame
    steps,      \* what this pass of the loop has done so far, in order
    \* main (src/src/bin/tinyrs.rs:89-94)
    stderr,     \* the lines eprintln! has written
    exitCode,   \* the exit code of the process, <<>> while it runs
    \* Renderer::render_face and Renderer::render_line called on their own
    \* (src/src/renderer.rs:20-55, 112-156)
    rcall       \* the call made and what it returned

loaderVars == <<vertices, normals, textures, faces, lineNo, lastLine, result>>

rasterVars == <<resolution, zbuffer, pixels, drawColor, frame, scan, rstatus>>

matrixVars == <<matrix, mcall>>

triangleVars == <<triangle, bcall>>

appVars == <<pc, mesh, face, queue, camera, projection, steps>>

mainVars == <<stderr, exitCode>>

vars ==
    <<loaderVars, rasterVars, matrixVars, triangleVars, appVars, mainVars, rcall>>

-----------------------------------------------------------------------------
(* Bounds of the model. *)

\* the longest file read, in lines
MaxLines == 4
\* the most corner descriptors on a face line
MaxCorners == 2
\* the widest and the tallest canvas, in pixels
MaxWidth == 2
MaxHeight == 2
\* the most calls of render_triangle_fn in one frame
MaxDraws == 2
\* the largest entry of the unit rows the matrices are built from
MaxCoeff == 1

-----------------------------------------------------------------------------------------------------------------------------------------------------
(* Text helpers: what str::split_once, str::split, str::split_whitespace   *)
(* and str::parse do on sequences of characters.                           *)

Digits == {"0", "1", "2", "3", "4", "5", "6", "7", "8", "9"}

DigitVal(c) ==
    CASE c = "0" -> 0 [] c = "1" -> 1 [] c = "2" -> 2 [] c = "3" -> 3
      [] c = "4" -> 4 [] c = "5" -> 5 [] c = "6" -> 6 [] c = "7" -> 7
      [] c = "8" -> 8 [] c = "9" -> 9

IsWhitespace(c) == c \in {" ", "\t"}

Ok(v) == [ok |-> TRUE, val |-> v]
Err(m) == [ok |-> FALSE, err |-> m]

Min(S) == CHOOSE m \in S : \A n \in S : m <= n
Max(S) == CHOOSE m \in S : \A n \in S : m >= n

\* the positions of s that hold the character ch
Positions(s, ch) == {i \in 1..Len(s) : s[i] = ch}

\* the least element of a set of positions, 0 when there is none
FirstOf(P) == IF P = {} THEN 0 ELSE Min(P)

\* the text before and after position i, nothing when i is 0
SplitAt(s, i) ==
    IF i = 0 THEN [some |-> FALSE]
    ELSE [some |-> TRUE, first |-> SubSeq(s, 1, i - 1),
          rest |-> SubSeq(s, i + 1, Len(s))]

\* str::split_once(ch): None, or the text before and after the first ch
SplitOnce(s, ch) == SplitAt(s, FirstOf(Positions(s, ch)))

\* str::split(ch): the segments between the occurrences of ch (empty ones kept)
RECURSIVE Split(_, _)
RECURSIVE SplitFrom(_, _, _)
SplitFrom(so, s, ch) ==
    IF so.some THEN <<so.first>> \o Split(so.rest, ch) ELSE <<s>>

Split(s, ch) == SplitFrom(SplitOnce(s, ch), s, ch)

\* str::split_whitespace(): the maximal runs of non-whitespace characters
RECURSIVE SplitWhitespace(_)
RECURSIVE TokenThen(_, _)
TokenThen(s, e) ==
    IF e = 0 THEN <<s>>
    ELSE <<SubSeq(s, 1, e - 1)>> \o SplitWhitespace(SubSeq(s, e, Len(s)))

SplitWhitespace(s) ==
    IF s = <<>> THEN <<>>
    ELSE IF IsWhitespace(s[1]) THEN SplitWhitespace(Tail(s))
    ELSE TokenThen(s, FirstOf({i \in 1..Len(s) : IsWhitespace(s[i])}))

\* the value of a run of decimal digits
RECURSIVE DecimalValue(_)
DecimalValue(s) ==
    IF s = <<>> THEN 0
    ELSE 10 * DecimalValue(SubSeq(s, 1, Len(s) - 1)) + DigitVal(s[Len(s)])

AllDigits(s) == s # <<>> /\ \A i \in 1..Len(s) : s[i] \in Digits

\* the text has one of the signs at its front
HasSign(s, signs) == s # <<>> /\ s[1] \in signs

\* the decimal digits `body`, negated if asked
ParseDigits(body, negative, error) ==
    IF ~AllDigits(body) THEN Err(error)
    ELSE IF negative THEN Ok(0 - DecimalValue(body))
    ELSE Ok(DecimalValue(body))

\* str::parse::<usize>(): an optional '+' and decimal digits
ParseUsize(s) ==
    ParseDigits(IF HasSign(s, {"+"}) THEN Tail(s) ELSE s, FALSE, "ParseIntError")

\* str::parse::<f64>() on the texts of the model: an optional sign and
\* decimal digits (no text of the model holds '.', an exponent, inf or nan)
ParseF64(s) ==
    ParseDigits(IF HasSign(s, {"+", "-"}) THEN Tail(s) ELSE s,
                HasSign(s, {"-"}), "ParseFloatError")

-----------------------------------------------------------------------------
(* src/src/model.rs *)

\* the map_err of Coordinate::parse: the coordinate's name goes into the
\* message of a failure
CoordinateOf(name, r) ==
    IF r.ok THEN r ELSE Err(<<"invalid coordinate ", name, " format: ", r.err>>)

\* Coordinate::parse: the next token as an f64
CoordinateParse(name, parts, i) ==
    IF i > Len(parts)
    THEN Err(<<"missing coordinate ", name>>)
    ELSE CoordinateOf(name, ParseF64(parts[i]))

\* the first failure of the three, or the vector
Vec3Of(x, y, z) ==
    IF ~x.ok THEN x
    ELSE IF ~y.ok THEN y
    ELSE IF ~z.ok THEN z
    ELSE Ok(<<x.val, y.val, z.val>>)

Vec3From(parts) ==
    Vec3Of(CoordinateParse("x", parts, 1), CoordinateParse("y", parts, 2),
           CoordinateParse("z", parts, 3))

parse_vec3f(line) == Vec3From(SplitWhitespace(line))

VecUV2Of(u, v) ==
    IF ~u.ok THEN u
    ELSE IF ~v.ok THEN v
    ELSE Ok(<<u.val, v.val>>)

VecUV2From(parts) ==
    VecUV2Of(CoordinateParse("u", parts, 1), CoordinateParse("v", parts, 2))

parse_vec_uv_2f(line) == VecUV2From(SplitWhitespace(line))

\* the map_err of FaceIndex::parse
FaceIndexOf(kind, r) ==
    IF r.ok THEN r ELSE Err(<<"invalid ", kind, " index format: ", r.err>>)

\* FaceIndex::parse without the is_empty() test: an empty segment is parsed
\* as a number, which fails
FaceIndexParse_EmptyIsError(kind, indices, i) ==
    IF i > Len(indices)
    THEN Err(<<"missing ", kind, " index">>)
    ELSE FaceIndexOf(kind, ParseUsize(indices[i]))

\* FaceIndex::parse on the i-th segment of a corner descriptor.  The vertex
\* index is parsed as it stands; an empty texture or normal segment is 0; a
\* segment that is not there at all is an error for all three.
FaceIndexParse(kind, indices, i) ==
    IF i > Len(indices)
    THEN Err(<<"missing ", kind, " index">>)
    ELSE IF kind # "vertex" /\ indices[i] = <<>>
    THEN Ok(0)
    ELSE FaceIndexOf(kind, ParseUsize(indices[i]))

\* Vec3f::dot (src/src/geometry.rs:28-30)
Dot(a, b) == a[1] * b[1] + a[2] * b[2] + a[3] * b[3]

\* the integer square root of a perfect square
ISqrt(n) == CHOOSE r \in 0..n : r * r = n

\* every component divided by n
Scaled(v, n) == <<v[1] \div n, v[2] \div n, v[3] \div n>>

\* Vec3f::normalize: every component times 1/norm.  The normals of the model
\* are not zero and have an integer norm that divides their components.
Normalize(v) == Scaled(v, ISqrt(Dot(v, v)))

\* Face::from counting the indices from the last element read back to the
\* first, as a relative index does
FaceCorner_FromTheEnd(vi, ti, ni, vs, ts, ns, f) ==
    IF ~vi.ok THEN vi
    ELSE IF vi.val = 0 \/ vi.val > Len(vs)
    THEN Err(<<"face index out of bounds: ", vi.val>>)
    ELSE IF ~ti.ok THEN ti
    ELSE IF ti.val > Len(ts)
    THEN Err(<<"texture index out of bounds: ", ti.val>>)
    ELSE IF ~ni.ok THEN ni
    ELSE IF ni.val > Len(ns)
    THEN Err(<<"normal index out of bounds: ", ni.val>>)
    ELSE Ok([vertices |-> Append(f.vertices, vs[Len(vs) + 1 - vi.val]),
             textures |-> IF ti.val > 0
                          THEN Append(f.textures, ts[Len(ts) + 1 - ti.val])
                          ELSE f.textures,
             normals  |-> IF ni.val > 0
                          THEN Append(f.normals, ns[Len(ns) + 1 - ni.val])
                          ELSE f.normals])

\* Face::from treating a vertex index of 0 as it treats a texture index of
\* 0: nothing is pushed, and no error is returned
FaceCorner_ZeroVertexSkipped(vi, ti, ni, vs, ts, ns, f) ==
    IF ~vi.ok THEN vi
    ELSE IF vi.val > Len(vs)
    THEN Err(<<"face index out of bounds: ", vi.val>>)
    ELSE IF ~ti.ok THEN ti
    ELSE IF ti.val > Len(ts)
    THEN Err(<<"texture index out of bounds: ", ti.val>>)
    ELSE IF ~ni.ok THEN ni
    ELSE IF ni.val > Len(ns)
    THEN Err(<<"normal index out of bounds: ", ni.val>>)
    ELSE Ok([vertices |-> IF vi.val > 0 THEN Append(f.vertices, vs[vi.val])
                          ELSE f.vertices,
             textures |-> IF ti.val > 0 THEN Append(f.textures, ts[ti.val])
                          ELSE f.textures,
             normals  |-> IF ni.val > 0 THEN Append(f.normals, ns[ni.val])
                          ELSE f.normals])

\* One pass of the loop of Face::from, given what FaceIndex::parse returns
\* for the three parts of the corner descriptor: the three lists of the face
\* with the corner added, or the first error.
FaceCorner(vi, ti, ni, vs, ts, ns, f) ==
    IF ~vi.ok THEN vi
    ELSE IF vi.val = 0 \/ vi.val > Len(vs)
    THEN Err(<<"face index out of bounds: ", vi.val>>)
    ELSE IF ~ti.ok THEN ti
    ELSE IF ti.val > Len(ts)
    THEN Err(<<"texture index out of bounds: ", ti.val>>)
    ELSE IF ~ni.ok THEN ni
    ELSE IF ni.val > Len(ns)
    THEN Err(<<"normal index out of bounds: ", ni.val>>)
    ELSE Ok([vertices |-> Append(f.vertices, vs[vi.val]),
             textures |-> IF ti.val > 0 THEN Append(f.textures, ts[ti.val])
                          ELSE f.textures,
             normals  |-> IF ni.val > 0 THEN Append(f.normals, ns[ni.val])
                          ELSE f.normals])

\* the pass for the segments part.split('/') of a corner descriptor
FaceCornerOf(indices, vs, ts, ns, f) ==
    FaceCorner(FaceIndexParse("vertex", indices, 1),
               FaceIndexParse("texture", indices, 2),
               FaceIndexParse("normal", indices, 3), vs, ts, ns, f)

\* the loop of Face::from from the i-th descriptor on
RECURSIVE FaceCorners(_, _, _, _, _, _)
RECURSIVE FaceCornersThen(_, _, _, _, _, _)
FaceCornersThen(r, parts, i, vs, ts, ns) ==
    IF r.ok THEN FaceCorners(parts, i + 1, vs, ts, ns, r.val) ELSE r

FaceCorners(parts, i, vs, ts, ns, f) ==
    IF i > Len(parts) THEN Ok(f)
    ELSE FaceCornersThen(FaceCornerOf(Split(parts[i], "/"), vs, ts, ns, f),
                         parts, i, vs, ts, ns)

\* Face::from without the two length tests at its end
FaceNormalise_KeepPartial(f) == f

\* the end of Face::from: a texture or normal list that is not as long as
\* the vertex list is replaced by an empty one
FaceNormalise(f) ==
    [vertices |-> f.vertices,
     textures |-> IF Len(f.textures) # Len(f.vertices) THEN <<>> ELSE f.textures,
     normals  |-> IF Len(f.normals) # Len(f.vertices) THEN <<>> ELSE f.normals]

EmptyFace == [vertices |-> <<>>, textures |-> <<>>, normals |-> <<>>]

FaceOf(r) == IF r.ok THEN Ok(FaceNormalise(r.val)) ELSE r

FaceFrom(line, vs, ts, ns) ==
    FaceOf(FaceCorners(SplitWhitespace(line), 1, vs, ts, ns, EmptyFace))

\* the message with the 0-based index of the line
AtLine_ZeroBased(line, msg) == <<"at line ", line, ": ">> \o msg

\* the message of a parse error: format!("at line {}: {}", line + 1, msg),
\* where line is the 0-based index that enumerate() gives the line
AtLine(line, msg) == <<"at line ", line + 1, ": ">> \o msg

\* RenderError::fmt for the errors of from_file
RenderErrorFmt(e) ==
    CASE e.variant = "VertexParsingError"  -> <<"Unable to parse vertex: ">> \o e.msg
      [] e.variant = "NormalParsingError"  -> <<"Unable to parse normal: ">> \o e.msg
      [] e.variant = "TextureParsingError" -> <<"Unable to parse texture: ">> \o e.msg
      [] e.variant = "FaceParsingError"    -> <<"Unable to parse face: ">> \o e.msg
      [] e.variant = "FileReadError"       -> <<"Unable to read file: ">> \o e.msg

Running == [tag |-> "Running"]
OkModel(fs) == [tag |-> "Ok", model |-> fs]
ErrOf(variant, msg) == [tag |-> "Err", err |-> [variant |-> variant, msg |-> msg]]

\* the four lists of from_file and how far it is
Locals(vs, ns, ts, fs, res) ==
    [vertices |-> vs, normals |-> ns, textures |-> ts, faces |-> fs, result |-> res]

\* .map(|x| list.push(x)).map_err(|msg| variant(format!(..)))?  for the
\* list `which` of the four
PushOrFail(r, which, variant, line, vs, ns, ts, fs) ==
    IF ~r.ok THEN Locals(vs, ns, ts, fs, ErrOf(variant, AtLine(line, r.err)))
    ELSE CASE which = "v"  -> Locals(Append(vs, r.val), ns, ts, fs, Running)
           [] which = "vn" -> Locals(vs, Append(ns, Normalize(r.val)), ts, fs, Running)
           [] which = "vt" -> Locals(vs, ns, Append(ts, r.val), fs, Running)
           [] which = "f"  -> Locals(vs, ns, ts, Append(fs, r.val), Running)

\* a line with no space taken as a directive with nothing after it
SplitDirective_WholeLine(text) ==
    IF Positions(text, " ") = {}
    THEN [some |-> TRUE, first |-> text, rest |-> <<>>]
    ELSE SplitOnce(text, " ")

\* if let Some((first, rest)) = line.split_once(' ')
SplitDirective(text) == SplitOnce(text, " ")

\* match first { "v" => .., "vn" => .., "vt" => .., "f" => .., _ => Ok(()) }
Dispatch(so, line, vs, ns, ts, fs) ==
    IF ~so.some THEN Locals(vs, ns, ts, fs, Running)
    ELSE CASE so.first = <<"v">> ->
                PushOrFail(parse_vec3f(so.rest), "v", "VertexParsingError",
                           line, vs, ns, ts, fs)
           [] so.first = <<"v", "n">> ->
                PushOrFail(parse_vec3f(so.rest), "vn", "NormalParsingError",
                           line, vs, ns, ts, fs)
           [] so.first = <<"v", "t">> ->
                PushOrFail(parse_vec_uv_2f(so.rest), "vt", "TextureParsingError",
                           line, vs, ns, ts, fs)
           [] so.first = <<"f">> ->
                PushOrFail(FaceFrom(so.rest, vs, ts, ns), "f", "FaceParsingError",
                           line, vs, ns, ts, fs)
           [] OTHER -> Locals(vs, ns, ts, fs, Running)

\* The body of the loop of Model::from_file for the line `text`, the
\* `line`-th (0-based) of the file: the four lists and the result after it.
LineStep(line, text, vs, ns, ts, fs) ==
    Dispatch(SplitDirective(text), line, vs, ns, ts, fs)

-----
(* The lines a file of the model is made of. *)

\* the texts `ts` with one space between them
RECURSIVE Words(_)
Words(ts) ==
    IF ts = <<>> THEN <<>>
    ELSE IF Len(ts) = 1 THEN ts[1]
    ELSE ts[1] \o <<" ">> \o Words(Tail(ts))

\* v, vn and vt lines, well-formed and malformed
DataLines ==
    { Words(<<<<"v">>, <<"0">>, <<"0">>, <<"0">>>>),
      Words(<<<<"v">>, <<"1">>, <<"0">>, <<"0">>>>),
      Words(<<<<"v">>, <<"0">>, <<"1">>, <<"0">>>>),
      Words(<<<<"v">>, <<"1">>, <<"x">>, <<"0">>>>),
      Words(<<<<"v", "n">>, <<"0">>, <<"0">>, <<"-", "2">>>>),
      Words(<<<<"v", "n">>, <<"1">>>>),
      Words(<<<<"v", "t">>, <<"0">>, <<"1">>>>),
      Words(<<<<"v", "t">>, <<"x">>, <<"1">>>>) }

\* a blank line, a directive with no space after it, an unknown directive
OtherLines ==
    { <<>>,
      <<"f">>,
      Words(<<<<"#">>, <<"x">>>>) }

\* corner descriptors: v, v/t, v/t/n, v//n, v/0/, index 0, a texture index
\* that is no number
Corners ==
    { <<"1">>,
      <<"1", "/", "1">>,
      <<"1", "/", "1", "/", "1">>,
      <<"1", "/", "/", "1">>,
      <<"2", "/", "0", "/">>,
      <<"0", "/", "/">>,
      <<"1", "/", "x", "/">> }

\* the face lines of up to n corner descriptors
RECURSIVE CornerSeqs(_)
CornerSeqs(n) ==
    IF n = 0 THEN {<<>>}
    ELSE LET shorter == CornerSeqs(n - 1)
         IN  shorter \cup {Append(cs, c) : cs \in {s \in shorter : Len(s) = n - 1},
                                            c \in Corners}

\* the worked examples of the specification: f 1 2 3 and f 1// 2// 3//
ExampleFaceLines ==
    { Words(<<<<"f">>, <<"1">>, <<"2">>, <<"3">>>>),
      Words(<<<<"f">>, <<"1", "/", "/">>, <<"2", "/", "/">>, <<"3", "/", "/">>>>) }

FaceLines ==
    {Words(<<<<"f">>>> \o cs) : cs \in CornerSeqs(MaxCorners) \ {<<>>}}
        \cup ExampleFaceLines

Lines == DataLines \cup OtherLines \cup FaceLines

-----------------------------------------------------------------------------------------------------------------------------------------------------
(* Model::from_file as a state machine: one step per line of the file. *)

\* Color::RGB(0, 0, 0), the colour canvas.clear() paints with in app
Black == [fn |-> "RGB(0,0,0)", at |-> <<>>]

\* while from_file runs, app has built the canvas but neither the Renderer
\* nor the depth buffer
RendererNotBuilt ==
    /\ resolution = [width |-> 1024, height |-> 768]
    /\ zbuffer = <<>>
    /\ pixels = <<>>
    /\ drawColor = Black
    /\ frame = <<>>
    /\ scan = <<>>
    /\ rstatus = "NotStarted"

\* no matrix has been built
NoMatrix ==
    /\ matrix = <<>>
    /\ mcall = [op |-> "none"]

\* no Triangle is built
NoTriangle ==
    /\ triangle = <<>>
    /\ bcall = [op |-> "no triangle"]

\* app is not in its frame loop
NoApp ==
    /\ pc = "NotStarted"
    /\ mesh = 0
    /\ face = 0
    /\ queue = <<>>
    /\ camera = 0
    /\ projection = <<>>
    /\ steps = <<>>

\* main has not returned and has printed nothing
NoMain ==
    /\ stderr = <<>>
    /\ exitCode = <<>>

\* no method of the Renderer is called on its own
NoCall == rcall = [op |-> "no renderer"]

InitLoader ==
    /\ vertices = <<>>
    /\ normals = <<>>
    /\ textures = <<>>
    /\ faces = <<>>
    /\ lineNo = 0
    /\ lastLine = <<>>
    /\ result = Running
    /\ RendererNotBuilt
    /\ NoMatrix
    /\ NoTriangle
    /\ NoApp
    /\ NoMain
    /\ NoCall

\* from_file has returned: its local lists are gone
Returned(r) ==
    /\ vertices' = <<>>
    /\ normals' = <<>>
    /\ textures' = <<>>
    /\ faces' = <<>>
    /\ result' = r

\* the loop goes on with the lists `s`, or `?` returns the error
Continue(s) ==
    IF s.result = Running
    THEN /\ vertices' = s.vertices
         /\ normals' = s.normals
         /\ textures' = s.textures
         /\ faces' = s.faces
         /\ result' = Running
    ELSE Returned(s.result)

\* file.lines() yields the line `text`: one pass of the loop
ReadLine(text) ==
    /\ result = Running
    /\ lineNo < MaxLines
    /\ lineNo' = lineNo + 1
    /\ lastLine' = text
    /\ Continue(LineStep(lineNo, text, vertices, normals, textures, faces))
    /\ UNCHANGED <<rasterVars, matrixVars, triangleVars, appVars, mainVars, rcall>>

\* file.lines() is exhausted: Ok(Model{faces})
EndOfFile ==
    /\ result = Running
    /\ Returned(OkModel(faces))
    /\ UNCHANGED <<lineNo, lastLine>>
    /\ UNCHANGED <<rasterVars, matrixVars, triangleVars, appVars, mainVars, rcall>>

\* File::open fails, or reading the next line does: `?` returns the
\* io::Error as a FileReadError
ReadFails ==
    /\ result = Running
    /\ Returned(ErrOf("FileReadError", <<"io::Error">>))
    /\ UNCHANGED <<lineNo, lastLine>>
    /\ UNCHANGED <<rasterVars, matrixVars, triangleVars, appVars, mainVars, rcall>>

NextLoader ==
    \/ \E text \in Lines : ReadLine(text)
    \/ EndOfFile
    \/ ReadFails

SpecLoader == InitLoader /\ [][NextLoader]_vars

-----
(* What the claims say about a line, read off its text. *)

\* the step is one pass of the loop of from_file
StepRead == lineNo' = lineNo + 1

\* the line has the directive d followed by a space
IsLineOf(text, d) ==
    /\ Positions(text, " ") # {}
    /\ SubSeq(text, 1, Min(Positions(text, " ")) - 1) = d

\* the corner descriptors of a face line
CornersOf(text) ==
    SplitWhitespace(SubSeq(text, Min(Positions(text, " ")) + 1, Len(text)))

Segments(corner) == Split(corner, "/")

\* the text is a number between lo and hi
IsIndex(seg, lo, hi) == ParseUsize(seg).ok /\ ParseUsize(seg).val \in lo..hi

IndexOf(seg) == IF seg = <<>> THEN 0 ELSE ParseUsize(seg).val

LastOf(s) == s[Len(s)]

\* a corner descriptor v or v/t: a vertex index in range, the sub-indices
\* left out (or, for t, in range)
OmitsSubIndices(corner, nv, nt) ==
    LET segs == Segments(corner)
    IN  /\ Len(segs) \in {1, 2}
        /\ IsIndex(segs[1], 1, nv)
        /\ Len(segs) = 2 => (segs[2] = <<>> \/ IsIndex(segs[2], 0, nt))

\* a corner descriptor v/t/n whose three parts are what the format allows:
\* a vertex index in range, and sub-indices that are empty, 0 or in range
WellFormedCorner(corner, nv, nt, nn) ==
    LET segs == Segments(corner)
    IN  /\ Len(segs) >= 3
        /\ IsIndex(segs[1], 1, nv)
        /\ segs[2] = <<>> \/ IsIndex(segs[2], 0, nt)
        /\ segs[3] = <<>> \/ IsIndex(segs[3], 0, nn)

\* the elements of `pool` that the j-th parts of the corners refer to, in
\* corner order; a part that is empty or 0 refers to nothing
RECURSIVE Refs(_, _, _)
Refs(cs, j, pool) ==
    IF cs = <<>> THEN <<>>
    ELSE LET i == IndexOf(Segments(cs[1])[j])
         IN  (IF i > 0 THEN <<pool[i]>> ELSE <<>>) \o Refs(Tail(cs), j, pool)

\* a list of per-corner attributes, or nothing when not every corner has one
AllOrNothing(refs, n) == IF Len(refs) = n THEN refs ELSE <<>>

\* a sub-index that is there, not empty, and no number between 0 and n
BadSubIndex(corner, j, n) ==
    LET segs == Segments(corner)
    IN  Len(segs) >= j /\ segs[j] # <<>> /\ ~IsIndex(segs[j], 0, n)

\* fewer than n tokens, or one of the first n is no number
BadCoordinates(text, n) ==
    LET ts == SplitWhitespace(SubSeq(text, Min(Positions(text, " ")) + 1, Len(text)))
    IN  Len(ts) < n \/ \E i \in 1..n : ~ParseF64(ts[i]).ok

\* the parse error variant of a directive
VariantOf(text) ==
    CASE IsLineOf(text, <<"v">>)      -> "VertexParsingError"
      [] IsLineOf(text, <<"v", "n">>) -> "NormalParsingError"
      [] IsLineOf(text, <<"v", "t">>) -> "TextureParsingError"
      [] IsLineOf(text, <<"f">>)      -> "FaceParsingError"
      [] OTHER                        -> "none"

\* the prefix of the message RenderError::fmt gives each variant
PrefixOf(variant) ==
    CASE variant = "VertexParsingError"  -> "Unable to parse vertex: "
      [] variant = "NormalParsingError"  -> "Unable to parse normal: "
      [] variant = "TextureParsingError" -> "Unable to parse texture: "
      [] variant = "FaceParsingError"    -> "Unable to parse face: "

\* a corner whose vertex index or a sub-index is not what the format allows
SomeBadCorner(cs, nv, nt, nn) ==
    \E k \in 1..Len(cs) :
        \/ ~IsIndex(Segments(cs[k])[1], 1, nv)
        \/ BadSubIndex(cs[k], 2, nt)
        \/ BadSubIndex(cs[k], 3, nn)

\* a v, vn, vt or f line that does not follow the format, given how many
\* vertices, textures and normals were read before it
Malformed(text, nv, nt, nn) ==
    \/ IsLineOf(text, <<"v">>) /\ BadCoordinates(text, 3)
    \/ IsLineOf(text, <<"v", "n">>) /\ BadCoordinates(text, 3)
    \/ IsLineOf(text, <<"v", "t">>) /\ BadCoordinates(text, 2)
    \/ IsLineOf(text, <<"f">>) /\ SomeBadCorner(CornersOf(text), nv, nt, nn)

\* a blank line, a line with no space, or a line of another directive
Ignorable(text) ==
    \/ Positions(text, " ") = {}
    \/ VariantOf(text) = "none"

-----------------------------------------------------------------------------------------------------------------------------------------------------
(* The claims about the mesh loader, checked under SpecLoader. *)

\* the corner descriptors of the line if it is a face line, none otherwise
FaceCornersOf(text) == IF IsLineOf(text, <<"f">>) THEN CornersOf(text) ELSE <<>>

\* for each corner, whether P holds of it
OmitFlags(cs, nv, nt) == [k \in 1..Len(cs) |-> OmitsSubIndices(cs[k], nv, nt)]
WellFormedFlags(cs, nv, nt, nn) ==
    [k \in 1..Len(cs) |-> WellFormedCorner(cs[k], nv, nt, nn)]
SegmentCounts(cs) == [k \in 1..Len(cs) |-> Len(Segments(cs[k]))]
VertexIndices(cs) == [k \in 1..Len(cs) |-> ParseUsize(Segments(cs[k])[1])]

C1_Holds(cs, omits, counts, res, fsBefore, fsAfter) ==
    (cs # <<>> /\ \A k \in 1..Len(cs) : omits[k])
    => /\ res = Running
       /\ Len(fsAfter) = Len(fsBefore) + 1
       /\ Len(LastOf(fsAfter).vertices) = Len(cs)
       /\ LastOf(fsAfter).normals = <<>>
       /\ (\A k \in 1..Len(cs) : counts[k] = 1) => LastOf(fsAfter).textures = <<>>

\* C1: a face line whose corner descriptors leave out the optional
\* sub-indices (v, or v/t) with indices in range never makes the load fail:
\* the line adds one face with one vertex per corner and no normals, and no
\* textures either when every corner is a bare v (as for v, v, v, f 1 2 3).
C1_OmittedSubIndicesAccepted ==
    [][ StepRead
        => C1_Holds(FaceCornersOf(lastLine'),
                    OmitFlags(FaceCornersOf(lastLine'), Len(vertices), Len(textures)),
                    SegmentCounts(FaceCornersOf(lastLine')),
                    result', faces, faces') ]_vars

C2_Holds(cs, wf, vi, nv, line, res) ==
    \A k \in 1..Len(cs) :
        (/\ \A j \in 1..(k - 1) : wf[j]
         /\ vi[k].ok
         /\ vi[k].val = 0 \/ vi[k].val > nv)
        => /\ res.tag = "Err"
           /\ res.err.variant = "FaceParsingError"
           /\ res.err.msg = <<"at line ", line, ": ",
                             "face index out of bounds: ", vi[k].val>>

\* C2: when the loop of Face::from comes to a corner whose vertex index is 0
\* or greater than the number of vertices read so far (the corners before it
\* on the line being well formed), from_file returns a FaceParsingError whose
\* message holds the 1-based number of the line and the out-of-bounds reason.
C2_VertexIndexOutOfBounds ==
    [][ StepRead
        => C2_Holds(FaceCornersOf(lastLine'),
                    WellFormedFlags(FaceCornersOf(lastLine'), Len(vertices),
                                    Len(textures), Len(normals)),
                    VertexIndices(FaceCornersOf(lastLine')),
                    Len(vertices), lineNo + 1, result') ]_vars

\* C2 happens: the load has failed at a line after the first on a vertex
\* index greater than the number of vertices
C2_Witness ==
    /\ result.tag = "Err"
    /\ result.err.variant = "FaceParsingError"
    /\ lineNo >= 2
    /\ Len(result.err.msg) = 5
    /\ result.err.msg[4] = "face index out of bounds: "
    /\ result.err.msg[5] > 0

FaceConsistent(f) ==
    /\ Len(f.normals) \in {0, Len(f.vertices)}
    /\ Len(f.textures) \in {0, Len(f.vertices)}

\* the number of corners whose j-th part refers to something
Carrying(cs, j) == Cardinality({k \in 1..Len(cs) : IndexOf(Segments(cs[k])[j]) > 0})

C3_Holds(cs, f) ==
    /\ Carrying(cs, 3) < Len(cs) => f.normals = <<>>
    /\ Carrying(cs, 2) < Len(cs) => f.textures = <<>>

\* C3: in every face read, and in every face of the Model returned, the
\* normals are none or one per vertex, and so are the textures; a face line
\* on which only some corners have a normal (texture) index gives a face with
\* no normals (textures).
C3_AttributeListsAllOrNothing ==
    [][ /\ \A i \in 1..Len(faces') : FaceConsistent(faces'[i])
        /\ result'.tag = "Ok"
           => \A i \in 1..Len(result'.model) : FaceConsistent(result'.model[i])
        /\ (StepRead /\ IsLineOf(lastLine', <<"f">>) /\ result' = Running)
           => /\ Len(faces') = Len(faces) + 1
              /\ C3_Holds(CornersOf(lastLine'), LastOf(faces')) ]_vars

\* C3 happens: a Model was returned whose last line was a face line with a
\* normal index on some corners only
C3_Witness ==
    /\ result.tag = "Ok"
    /\ result.model # <<>>
    /\ IsLineOf(lastLine, <<"f">>)
    /\ Carrying(CornersOf(lastLine), 3) \in 1..(Len(CornersOf(lastLine)) - 1)
    /\ LastOf(result.model).normals = <<>>
    /\ Len(LastOf(result.model).vertices) = Len(CornersOf(lastLine))

C4_Holds(cs, wf, vs, ts, ns, res, fsBefore, fsAfter) ==
    /\ (\A k \in 1..Len(cs) : wf[k])
       => /\ res = Running
          /\ fsAfter = Append(fsBefore,
                [vertices |-> Refs(cs, 1, vs),
                 textures |-> AllOrNothing(Refs(cs, 2, ts), Len(cs)),
                 normals  |-> AllOrNothing(Refs(cs, 3, ns), Len(cs))])
    /\ (\E k \in 1..Len(cs) :
           BadSubIndex(cs[k], 2, Len(ts)) \/ BadSubIndex(cs[k], 3, Len(ns)))
       => /\ res.tag = "Err"
          /\ res.err.variant = "FaceParsingError"

\* C4: on a face line whose corners are all v/t/n with the vertex index in
\* range and each sub-index empty, 0 or in range, the load goes on and the
\* face holds a texture (normal) only for the corners whose sub-index is not
\* empty and not 0; a sub-index that is anything else (no number, or greater
\* than the number of textures (normals) read so far) makes the load fail
\* with a FaceParsingError.
C4_SubIndexAbsentOrInRange ==
    [][ (StepRead /\ IsLineOf(lastLine', <<"f">>))
        => C4_Holds(CornersOf(lastLine'),
                    WellFormedFlags(CornersOf(lastLine'), Len(vertices),
                                    Len(textures), Len(normals)),
                    vertices, textures, normals, result', faces, faces') ]_vars

\* C4 happens: the load went on after a face line of two or more corners
\* with an empty or 0 sub-index on one and a texture or normal on another
C4_Witness ==
    /\ result = Running
    /\ IsLineOf(lastLine, <<"f">>)
    /\ Len(CornersOf(lastLine)) >= 2
    /\ \E j \in {2, 3} :
          Carrying(CornersOf(lastLine), j) \in 1..(Len(CornersOf(lastLine)) - 1)
    /\ faces # <<>>

C5_Holds(variant, line, res, fsAfter) ==
    /\ res.tag = "Err"
    /\ res.err.variant = variant
    /\ SubSeq(RenderErrorFmt(res.err), 1, 4) =
          <<PrefixOf(variant), "at line ", line, ": ">>
    /\ fsAfter = <<>>

\* C5: from_file returns at the first malformed v, vn, vt or f line, with
\* the error variant of the directive and a message that holds the 1-based
\* number of the line among all lines read; once it has returned, no line
\* is read and the result (an error, not a Model) stays.
C5_FirstMalformedLineFails ==
    [][ /\ result = Running
        /\ (StepRead /\ Malformed(lastLine', Len(vertices), Len(textures), Len(normals)))
           => C5_Holds(VariantOf(lastLine'), lineNo + 1, result', faces') ]_vars

\* C5 happens: the load failed on a malformed normal line that was the third
\* or a later line of the file
C5_Witness ==
    /\ result.tag = "Err"
    /\ result.err.variant = "NormalParsingError"
    /\ lineNo >= 3
    /\ result.err.msg[2] = lineNo

\* C6: a blank line, a line with no space, and a line of an unrecognized
\* directive leave the four lists as they are and the load running.
C6_IgnoredLinesChangeNothing ==
    [][ (StepRead /\ Ignorable(lastLine'))
        => /\ UNCHANGED <<vertices, normals, textures, faces>>
           /\ result' = Running ]_vars

\* C6 happens: a line with no space was ignored after a vertex and a face
\* had been read
C6_Witness ==
    /\ result = Running
    /\ lineNo >= 3
    /\ Positions(lastLine, " ") = {}
    /\ lastLine # <<>>
    /\ vertices # <<>>
    /\ faces # <<>>

-----------------------------------------------------------------------------
(* Depths and weights: the quotients of the code, kept as fractions        *)
(* <<num, den>> in lowest terms with den > 0.  The rounding of an f64     *)
(* quotient is not modelled.                                               *)

Abs(n) == IF n < 0 THEN -n ELSE n

RECURSIVE GCD(_, _)
GCD(a, b) == IF b = 0 THEN a ELSE GCD(b, a % b)

Lowest(n, d, g) == <<n \div g, d \div g>>

\* n / d for d > 0
Frac(n, d) == Lowest(n, d, GCD(Abs(n), d))

FracAdd(a, b) == Frac(a[1] * b[2] + b[1] * a[2], a[2] * b[2])
FracSub(a, b) == Frac(a[1] * b[2] - b[1] * a[2], a[2] * b[2])
\* k * a for an integer k
FracScale(k, a) == Frac(k * a[1], a[2])

\* f64::MIN, the depth the buffer is filled with: below every depth of the
\* model, written -1/0
F64_MIN == <<-1, 0>>

\* a depth test that also passes on equal depths
DepthLess_OrEqual(a, b) ==
    IF a = F64_MIN THEN TRUE
    ELSE IF b = F64_MIN THEN FALSE
    ELSE a[1] * b[2] <= b[1] * a[2]

\* the depth test `zbuffer[index] < z`
DepthLess(a, b) ==
    IF b = F64_MIN THEN FALSE
    ELSE IF a = F64_MIN THEN TRUE
    ELSE a[1] * b[2] < b[1] * a[2]

-----------------------------------------------------------------------------
(* Triangle (src/src/geometry.rs:81-131). *)

Sub(a, b) == <<a[1] - b[1], a[2] - b[2], a[3] - b[3]>>

\* a det without the `d01 * d01`
TriangleWith_DetOfSquares(p1, p2, p3, v0, v1, d00, d01, d11) ==
    [p1 |-> p1, p2 |-> p2, p3 |-> p3, v0 |-> v0, v1 |-> v1,
     d00 |-> d00, d01 |-> d01, d11 |-> d11, det |-> d00 * d11]

\* the fields of a Triangle, with `det = d00 * d11 - d01 * d01`
TriangleWith(p1, p2, p3, v0, v1, d00, d01, d11) ==
    [p1 |-> p1, p2 |-> p2, p3 |-> p3, v0 |-> v0, v1 |-> v1,
     d00 |-> d00, d01 |-> d01, d11 |-> d11, det |-> d00 * d11 - d01 * d01]

TriangleOf(p1, p2, p3, v0, v1) ==
    TriangleWith(p1, p2, p3, v0, v1, Dot(v0, v0), Dot(v0, v1), Dot(v1, v1))

\* Triangle::new
TriangleNew(p1, p2, p3) == TriangleOf(p1, p2, p3, Sub(p2, p1), Sub(p3, p1))

\* Triangle::vertices
Vertices(t) == <<t.p1, t.p2, t.p3>>

None == [some |-> FALSE]
Some(v) == [some |-> TRUE, val |-> v]

\* a range test without `v > 1.0`
OutsideUnit_NoUpper(n, d) == IF d = 0 THEN TRUE ELSE n < 0

\* `v.is_nan() || v < 0.0 || v > 1.0` for v = n / d.  det is a Gram
\* determinant, never negative; for d = 0 the quotient is NaN or infinite
\* and the test is true either way.
OutsideUnit(n, d) == IF d = 0 THEN TRUE ELSE n < 0 \/ n > d

Weights(v, w) == <<FracSub(FracSub(<<1, 1>>, v), w), v, w>>

BarycentricWeights(t, nv, nw) ==
    IF OutsideUnit(nv, t.det) THEN None
    ELSE IF OutsideUnit(nw, t.det) THEN None
    ELSE Some(Weights(Frac(nv, t.det), Frac(nw, t.det)))

BarycentricAt(t, d02, d12) ==
    BarycentricWeights(t, d02 * t.d11 - t.d01 * d12, t.d00 * d12 - d02 * t.d01)

BarycentricOf(t, v2) == BarycentricAt(t, Dot(t.v0, v2), Dot(t.v1, v2))

\* Triangle::barycentric
Barycentric(t, p) == BarycentricOf(t, Sub(p, t.p1))

-----------------------------------------------------------------------------
(* Renderer::render_triangle_fn (src/src/renderer.rs:57-91). *)

\* `vertex.x as u32`: a saturating cast, negative values give 0.  The
\* coordinates of the model are integers far below u32::MAX, so the
\* truncation and the upper saturation of the cast do not come into play.
AsU32(v) == IF v < 0 THEN 0 ELSE v

Min2(a, b) == IF a <= b THEN a ELSE b
Max2(a, b) == IF a >= b THEN a ELSE b

\* 0u32.max(min_x.min(vertex.x as u32))
ClampMin(cur, v) == Max2(0, Min2(cur, v))

\* an upper edge of the box that follows the vertex past the canvas
ClampMax_Unclamped(limit, cur, v) == Max2(cur, v)

\* (self.resolution.width - 1).min(max_x.max(vertex.x as u32))
ClampMax(limit, cur, v) == Min2(limit, Max2(cur, v))

\* the box before the loop over the vertices
BoxStart(res) ==
    [min_x |-> res.width - 1, min_y |-> res.height - 1, max_x |-> 0, max_y |-> 0]

\* one pass of the loop over the vertices
BoxGrow(box, res, vertex) ==
    [min_x |-> ClampMin(box.min_x, AsU32(vertex[1])),
     min_y |-> ClampMin(box.min_y, AsU32(vertex[2])),
     max_x |-> ClampMax(res.width - 1, box.max_x, AsU32(vertex[1])),
     max_y |-> ClampMax(res.height - 1, box.max_y, AsU32(vertex[2]))]

\* the loop over triangle.vertices()
BoundingBoxOf(vs, res) ==
    BoxGrow(BoxGrow(BoxGrow(BoxStart(res), res, vs[1]), res, vs[2]), res, vs[3])

BoundingBox(t, res) == BoundingBoxOf(Vertices(t), res)

\* the pixels of `for x in min_x..=max_x { for y in min_y..=max_y`, in the
\* order the loops visit them
BoxPixelsOf(box, nx, ny) ==
    [k \in 1..(nx * ny) |->
        <<box.min_x + ((k - 1) \div ny), box.min_y + ((k - 1) % ny)>>]

BoxPixels(box) ==
    BoxPixelsOf(box, Max2(0, box.max_x - box.min_x + 1),
                Max2(0, box.max_y - box.min_y + 1))

\* color_fn(bcs): the closure the caller passes, applied to the weights
ColorFn(c, bcs) == [fn |-> c, at |-> bcs]

\* the sum over the vertices, zipped with the weights, of v.z * g
DepthOf(vs, bcs) ==
    FracAdd(FracAdd(FracScale(vs[1][3], bcs[1]), FracScale(vs[2][3], bcs[2])),
            FracScale(vs[3][3], bcs[3]))

Depth(t, bcs) == DepthOf(Vertices(t), bcs)

DrawError == "Err(draw_fpoint)"
IndexPanic == "panic: index out of bounds"

\* a store that leaves the depth buffer as it was
StoreDepth_Dropped(s, index, z) == s

\* zbuffer[index] = z
StoreDepth(s, index, z) == [s EXCEPT !.zbuffer[index] = z]

\* what the canvas holds after a point is drawn at (x, y): a point off the
\* canvas is clipped
PutPixel(px, res, x, y, colour) ==
    IF x < res.width /\ y < res.height
    THEN [px EXCEPT ![x + res.width * y] = colour]
    ELSE px

\* canvas.set_draw_color(..); canvas.draw_fpoint(..)?  The call of
\* draw_fpoint numbered failAt returns Err, which `?` returns at once.
DrawPoint(s, res, x, y, colour, failAt) ==
    IF s.draws + 1 = failAt
    THEN [s EXCEPT !.drawColor = colour, !.draws = @ + 1, !.status = DrawError]
    ELSE [s EXCEPT !.drawColor = colour, !.draws = @ + 1,
                   !.pixels = PutPixel(@, res, x, y, colour)]

\* the depth test and what it guards; indexing past the buffer panics
Fragment(s, res, x, y, index, z, colour, failAt) ==
    IF index \notin DOMAIN s.zbuffer
    THEN [s EXCEPT !.status = IndexPanic]
    ELSE IF DepthLess(s.zbuffer[index], z)
         THEN DrawPoint(StoreDepth(s, index, z), res, x, y, colour, failAt)
         ELSE s

\* `if let Some(bcs) = triangle.barycentric(..)`
Covered(s, res, t, c, x, y, bc, failAt) ==
    IF bc.some
    THEN Fragment(s, res, x, y, x + res.width * y, Depth(t, bc.val),
                  ColorFn(c, bc.val), failAt)
    ELSE s

\* the body of the two loops for the pixel p
Examine(s, res, t, c, p, failAt) ==
    Covered([s EXCEPT !.scan = Append(@, p)], res, t, c, p[1], p[2],
            Barycentric(t, <<p[1], p[2], 0>>), failAt)

RECURSIVE ScanFrom(_, _, _, _, _, _, _)
ScanFrom(s, res, t, c, ps, i, failAt) ==
    IF i > Len(ps) \/ s.status # "Ok"
    THEN s
    ELSE ScanFrom(Examine(s, res, t, c, ps[i], failAt), res, t, c, ps, i + 1, failAt)

\* render_triangle_fn on the buffers zb and px
RenderTriangleFn(zb, px, dc, res, t, c, failAt) ==
    ScanFrom([zbuffer |-> zb, pixels |-> px, drawColor |-> dc, scan |-> <<>>,
              draws |-> 0, status |-> "Ok"],
             res, t, c, BoxPixels(BoundingBox(t, res)), 1, failAt)

-----------------------------------------------------------------------------
(* The triangles the model renders, each with the colour closure its       *)
(* caller passes: flat ones at three depths that cover the canvas (two of  *)
(* them at the same depth), two whose depth varies, one with no area, and  *)
(* ones that lie off the canvas on one side.                               *)

Shape(p1, p2, p3, c) == [p1 |-> p1, p2 |-> p2, p3 |-> p3, color |-> c]

Shapes ==
    { Shape(<<0, 0, 0>>, <<4, 0, 0>>, <<0, 4, 0>>, "floor"),
      Shape(<<0, 0, 1>>, <<4, 0, 1>>, <<0, 4, 1>>, "middle"),
      Shape(<<0, 0, 1>>, <<0, 4, 1>>, <<4, 0, 1>>, "level"),
      Shape(<<-1, -1, 2>>, <<3, -1, 2>>, <<-1, 3, 2>>, "near"),
      Shape(<<0, 0, 0>>, <<2, 0, 2>>, <<0, 2, 0>>, "slope"),
      Shape(<<0, 0, 2>>, <<4, 0, 0>>, <<0, 4, 0>>, "tilt"),
      Shape(<<0, 0, 0>>, <<1, 1, 0>>, <<2, 2, 0>>, "sliver"),
      Shape(<<-2, -1, 0>>, <<-1, -1, 0>>, <<-1, 0, 0>>, "left"),
      Shape(<<0, -2, 0>>, <<0, -1, 0>>, <<1, -1, 0>>, "above"),
      Shape(<<-3, -3, 0>>, <<-2, -3, 0>>, <<-3, -2, 0>>, "corner"),
      Shape(<<40, 40, 0>>, <<41, 40, 0>>, <<40, 41, 0>>, "beyond") }

\* which call of draw_fpoint fails in one call of render_triangle_fn:
\* none (0), the first or the second
DrawFailures == {0, 1, 2}

-----------------------------------------------------------------------------
(* The frame loop of app around render_triangle_fn                         *)
(* (src/src/bin/tinyrs.rs:51-84).                                          *)

PixelIndices(res) == 0..(res.width * res.height - 1)

\* vec![f64::MIN; width * height], and zbuffer.fill(f64::MIN)
ClearDepth(res) == [i \in PixelIndices(res) |-> F64_MIN]

\* canvas.set_draw_color(Color::RGB(0, 0, 0)); canvas.clear()
ClearCanvas(res) == [i \in PixelIndices(res) |-> Black]

\* app after from_file has returned a model, at the top of its first frame
InitRaster ==
    /\ vertices = <<>>
    /\ normals = <<>>
    /\ textures = <<>>
    /\ faces = <<>>
    /\ lineNo = 0
    /\ lastLine = <<>>
    /\ result = OkModel(<<>>)
    /\ \E w \in 1..MaxWidth, h \in 1..MaxHeight :
          /\ resolution = [width |-> w, height |-> h]
          /\ zbuffer = ClearDepth(resolution)
          /\ pixels = ClearCanvas(resolution)
    /\ drawColor = Black
    /\ frame = <<>>
    /\ scan = <<>>
    /\ rstatus = "Rendering"
    /\ NoMatrix
    /\ NoTriangle
    /\ NoApp
    /\ NoMain
    /\ NoCall

\* the buffers after a call of render_triangle_fn, and where app goes on:
\* an Err leaves the loop through `?`
Rendered(r) ==
    /\ zbuffer' = r.zbuffer
    /\ pixels' = r.pixels
    /\ drawColor' = r.drawColor
    /\ scan' = r.scan
    /\ rstatus' = IF r.status = "Ok" THEN "Rendering" ELSE r.status

\* one call of render_triangle_fn in the frame
RenderTriangle(sh, failAt) ==
    /\ rstatus = "Rendering"
    /\ Len(frame) < MaxDraws
    /\ frame' = Append(frame, sh)
    /\ Rendered(RenderTriangleFn(zbuffer, pixels, drawColor, resolution,
                                 TriangleNew(sh.p1, sh.p2, sh.p3), sh.color,
                                 failAt))
    /\ UNCHANGED <<loaderVars, matrixVars, triangleVars, appVars, mainVars, rcall, resolution>>

\* the faces are done: zbuffer.fill(f64::MIN), no Quit among the events,
\* canvas.present(), and the clear that opens the next pass of the loop
NextFrame ==
    /\ rstatus = "Rendering"
    /\ zbuffer' = ClearDepth(resolution)
    /\ pixels' = ClearCanvas(resolution)
    /\ drawColor' = Black
    /\ frame' = <<>>
    /\ scan' = <<>>
    /\ UNCHANGED <<loaderVars, matrixVars, triangleVars, appVars, mainVars, rcall, resolution, rstatus>>

\* the faces are done: zbuffer.fill(f64::MIN), then a Quit or Escape event
\* breaks the loop and app returns Ok(())
Quit ==
    /\ rstatus = "Rendering"
    /\ zbuffer' = ClearDepth(resolution)
    /\ rstatus' = "Ok"
    /\ UNCHANGED <<loaderVars, matrixVars, triangleVars, appVars, mainVars, rcall, resolution, pixels, drawColor, frame, scan>>

NextRaster ==
    \/ \E sh \in Shapes, failAt \in DrawFailures : RenderTriangle(sh, failAt)
    \/ NextFrame
    \/ Quit

SpecRaster == InitRaster /\ [][NextRaster]_vars

-----------------------------------------------------------------------------
(* What the claims say about a call of render_triangle_fn. *)

\* a step that is one call of render_triangle_fn
StepRender == Len(frame') = Len(frame) + 1

TriangleIn(sh) == TriangleNew(sh.p1, sh.p2, sh.p3)

\* the depth-buffer index of the pixel p
PixelIndex(res, p) == p[1] + res.width * p[2]

CanvasPixels(res) ==
    {<<x, y>> : x \in 0..(res.width - 1), y \in 0..(res.height - 1)}

\* what Triangle::barycentric returns for the pixel p
WeightsAt(sh, p) == Barycentric(TriangleIn(sh), <<p[1], p[2], 0>>)

InBox(box, p) ==
    /\ box.min_x <= p[1] /\ p[1] <= box.max_x
    /\ box.min_y <= p[2] /\ p[2] <= box.max_y

\* the rasterizer takes p for a pixel of the triangle: p is in the scanned
\* box and Triangle::barycentric returns weights for it
Covers(sh, res, p) ==
    /\ InBox(BoundingBox(TriangleIn(sh), res), p)
    /\ WeightsAt(sh, p).some

\* the interpolated depth and the colour of the fragment at a covered pixel
DepthAt(sh, p) == Depth(TriangleIn(sh), WeightsAt(sh, p).val)
ColourAt(sh, p) == ColorFn(sh.color, WeightsAt(sh, p).val)

\* the three vertices lie off the canvas on one and the same side
SameSideOutside(sh, res) ==
    \/ \A v \in {sh.p1, sh.p2, sh.p3} : v[1] < 0
    \/ \A v \in {sh.p1, sh.p2, sh.p3} : v[1] > res.width - 1
    \/ \A v \in {sh.p1, sh.p2, sh.p3} : v[2] < 0
    \/ \A v \in {sh.p1, sh.p2, sh.p3} : v[2] > res.height - 1

\* the depth z of a fragment is strictly greater than the stored depth:
\* every depth of a fragment is greater than f64::MIN
StrictlyGreater(z, stored) ==
    \/ stored = F64_MIN
    \/ z[1] * stored[2] > stored[1] * z[2]

-----------------------------------------------------------------------------
(* C7 *)

\* the claim at one examined pixel whose weights are bc, as stated:
\* both writes when the depth is strictly greater, neither otherwise
C7_AsStated(i, z, colour, zb, px, zbAfter, pxAfter) ==
    IF StrictlyGreater(z, zb[i])
    THEN zbAfter[i] = z /\ pxAfter[i] = colour
    ELSE zbAfter[i] = zb[i] /\ pxAfter[i] = px[i]

\* the same with the failure of draw_fpoint told apart: the depth entry is
\* written, the pixel keeps its colour
C7_AtPixel(i, z, colour, zb, px, zbAfter, pxAfter, failed) ==
    IF StrictlyGreater(z, zb[i])
    THEN zbAfter[i] = z /\ pxAfter[i] = (IF failed THEN px[i] ELSE colour)
    ELSE zbAfter[i] = zb[i] /\ pxAfter[i] = px[i] /\ ~failed

\* C7 as stated: in a call of render_triangle_fn, every examined pixel that
\* the triangle covers is drawn and has its depth entry updated when the
\* fragment's depth is strictly greater than the stored depth, and keeps
\* both its colour and its depth entry otherwise.
C7_ColourAndDepthTogether ==
    [][ StepRender =>
          \A k \in 1..Len(scan') :
              Covers(frame'[Len(frame')], resolution, scan'[k])
              => C7_AsStated(PixelIndex(resolution, scan'[k]),
                             DepthAt(frame'[Len(frame')], scan'[k]),
                             ColourAt(frame'[Len(frame')], scan'[k]),
                             zbuffer, pixels, zbuffer', pixels') ]_vars

\* C7 amended: in a call of render_triangle_fn, the depth entry of an
\* examined covered pixel is updated exactly when the fragment's depth is
\* strictly greater than the stored depth, and the pixel is then drawn
\* unless draw_fpoint fails; on a depth less than or equal to the stored
\* one both are left unchanged.  When draw_fpoint fails, the depth entry of
\* that pixel is already written, its colour is unchanged, it is the last
\* pixel examined and the call returns the error.
C7_DepthThenColour ==
    [][ StepRender =>
          /\ \A k \in 1..Len(scan') :
                Covers(frame'[Len(frame')], resolution, scan'[k])
                => C7_AtPixel(PixelIndex(resolution, scan'[k]),
                              DepthAt(frame'[Len(frame')], scan'[k]),
                              ColourAt(frame'[Len(frame')], scan'[k]),
                              zbuffer, pixels, zbuffer', pixels',
                              rstatus' = DrawError /\ k = Len(scan'))
          /\ rstatus' \in {"Rendering", DrawError}
          /\ rstatus' = DrawError
             => /\ scan' # <<>>
                /\ Covers(frame'[Len(frame')], resolution, scan'[Len(scan')]) ]_vars

\* a second triangle passed the depth test at a pixel the first had drawn,
\* and draw_fpoint failed there: the depth is the second's, the colour the
\* first's
C7_Witness ==
    /\ rstatus = DrawError
    /\ Len(frame) = 2
    /\ scan # <<>>
    /\ Covers(frame[1], resolution, scan[Len(scan)])
    /\ zbuffer[PixelIndex(resolution, scan[Len(scan)])]
         = DepthAt(frame[2], scan[Len(scan)])
    /\ pixels[PixelIndex(resolution, scan[Len(scan)])]
         = ColourAt(frame[1], scan[Len(scan)])

-----------------------------------------------------------------------------
(* C8 *)

\* the frame's calls that take p for a pixel of their triangle
CoveringCalls(fr, res, p) == {i \in 1..Len(fr) : Covers(fr[i], res, p)}

\* at the pixel p, the buffers hold the depth and the colour of a covering
\* call whose depth no other covering call exceeds
C8_AtPixel(fr, p, stored, shown, C) ==
    C # {} =>
        \E i \in C :
            /\ stored = DepthAt(fr[i], p)
            /\ shown = ColourAt(fr[i], p)
            /\ \A j \in C : ~StrictlyGreater(DepthAt(fr[j], p), stored)

\* C8: while a frame is rendered, every pixel that triangles of the frame
\* cover (by the rasterizer's own test) shows the colour and holds the depth
\* of a covering triangle of the largest depth, whatever the order of the
\* calls: of two triangles of different depths the one with the larger depth
\* is shown, and a farther one never replaces a nearer one.
C8_LargestDepthShown ==
    rstatus = "Rendering" =>
        \A p \in CanvasPixels(resolution) :
            C8_AtPixel(frame, p, zbuffer[PixelIndex(resolution, p)],
                       pixels[PixelIndex(resolution, p)],
                       CoveringCalls(frame, resolution, p))

\* the nearer of two triangles was rendered first and the farther second,
\* and a pixel they share still shows the nearer one
C8_Witness ==
    /\ rstatus = "Rendering"
    /\ Len(frame) = 2
    /\ \E p \in CanvasPixels(resolution) :
          /\ Covers(frame[1], resolution, p)
          /\ Covers(frame[2], resolution, p)
          /\ StrictlyGreater(DepthAt(frame[1], p), DepthAt(frame[2], p))
          /\ pixels[PixelIndex(resolution, p)] = ColourAt(frame[1], p)
          /\ pixels[PixelIndex(resolution, p)] # ColourAt(frame[2], p)

-----------------------------------------------------------------------------
(* C9 *)

\* C9: a call of render_triangle_fn for a triangle whose three vertices lie
\* off the canvas on the same side writes no pixel and leaves the depth
\* buffer unchanged.
C9_OutsideTriangleWritesNothing ==
    [][ StepRender /\ SameSideOutside(frame'[Len(frame')], resolution)
        => zbuffer' = zbuffer /\ pixels' = pixels ]_vars

-----------------------------------------------------------------------------
(* C10 *)

\* the pixel p lies on the canvas and its index is one of the depth buffer
C10_OnCanvas(p, res, zb) ==
    /\ 0 <= p[1] /\ p[1] <= res.width - 1
    /\ 0 <= p[2] /\ p[2] <= res.height - 1
    /\ PixelIndex(res, p) \in DOMAIN zb

\* the indices of the pixels examined
ScannedIndices(sc, res) == {PixelIndex(res, sc[k]) : k \in 1..Len(sc)}

\* C10: with a width and a height of at least 1 and a depth buffer of
\* width*height entries, every pixel a call of render_triangle_fn examines
\* lies in [0, width-1] x [0, height-1] and has a valid depth-buffer index,
\* whatever the vertices; nothing is written outside the examined pixels and
\* no index is out of bounds.
C10_ScanStaysOnCanvas ==
    [][ StepRender =>
          /\ DOMAIN zbuffer = 0..(resolution.width * resolution.height - 1)
          /\ \A k \in 1..Len(scan') : C10_OnCanvas(scan'[k], resolution, zbuffer)
          /\ \A i \in DOMAIN zbuffer :
                (zbuffer'[i] # zbuffer[i] \/ pixels'[i] # pixels[i])
                => i \in ScannedIndices(scan', resolution)
          /\ rstatus' # IndexPanic ]_vars

\* a triangle with a vertex left of and above the canvas and vertices beyond
\* its right and bottom edges was rendered, and the whole canvas examined
C10_Witness ==
    /\ frame # <<>>
    /\ \E v \in {frame[Len(frame)].p1, frame[Len(frame)].p2, frame[Len(frame)].p3} :
          v[1] < 0 /\ v[2] < 0
    /\ \E v \in {frame[Len(frame)].p1, frame[Len(frame)].p2, frame[Len(frame)].p3} :
          v[1] > resolution.width - 1
    /\ \E v \in {frame[Len(frame)].p1, frame[Len(frame)].p2, frame[Len(frame)].p3} :
          v[2] > resolution.height - 1
    /\ Len(scan) = resolution.width * resolution.height
    /\ resolution.width > 1
    /\ rstatus = "Rendering"

-----------------------------------------------------------------------------
(* Natural numbers of any size, for the 53-bit significands of f64 and     *)
(* their products: a number is the sequence of its digits to the base      *)
(* 32768 = 2^15, lowest first, without leading zeros; 0 is the empty       *)
(* sequence.                                                               *)

Digit(a, i) == IF 1 <= i /\ i <= Len(a) THEN a[i] ELSE 0

\* a without its leading zeros
Trim(a) == SubSeq(a, 1, Max({0} \cup {i \in 1..Len(a) : a[i] # 0}))

\* a number below 2^31 as digits
BigOf(k) == Trim(<<k % 32768, (k \div 32768) % 32768, k \div (32768 * 32768)>>)

\* a number below 2^31 from its digits
IntOf(a) == Digit(a, 1) + 32768 * Digit(a, 2)

\* the carry into digit i of the digitwise sums s: some sum below i
\* overflows and every sum between it and i is full
CarryInto(s, i) ==
    IF \E j \in 1..(i - 1) : s[j] >= 32768 /\ \A k \in (j + 1)..(i - 1) : s[k] = 32767
    THEN 1 ELSE 0

\* the number whose digitwise sums, each below 2 * 32768 - 1, are s
Carried(s) == Trim([i \in DOMAIN s |-> (s[i] + CarryInto(s, i)) % 32768])

BigAdd(a, b) ==
    Carried([i \in 1..(Max2(Len(a), Len(b)) + 1) |-> Digit(a, i) + Digit(b, i)])

\* the borrow from digit i of the digitwise differences d: some difference
\* below i is negative and every difference between it and i is 0
BorrowFrom(d, i) ==
    IF \E j \in 1..(i - 1) : d[j] < 0 /\ \A k \in (j + 1)..(i - 1) : d[k] = 0
    THEN 1 ELSE 0

Borrowed(d) == Trim([i \in DOMAIN d |-> (d[i] - BorrowFrom(d, i)) % 32768])

\* a - b for a >= b
BigSub(a, b) == Borrowed([i \in 1..Len(a) |-> a[i] - Digit(b, i)])

\* -1, 0 or 1 as a < b, a = b or a > b, for numbers of the same length that
\* differ in the digits D
CmpAt(a, b, D) ==
    IF D = {} THEN 0 ELSE IF a[Max(D)] < b[Max(D)] THEN -1 ELSE 1

BigCmp(a, b) ==
    IF Len(a) < Len(b) THEN -1
    ELSE IF Len(a) > Len(b) THEN 1
    ELSE CmpAt(a, b, {i \in 1..Len(a) : a[i] # b[i]})

\* a * k for 0 <= k <= 32768: the low halves of the digit products and,
\* one digit up, their high halves
BigMulDigit(a, k) ==
    BigAdd([i \in 1..Len(a) |-> (a[i] * k) % 32768],
           [i \in 1..(Len(a) + 1) |-> IF i = 1 THEN 0 ELSE (a[i - 1] * k) \div 32768])

\* a * 32768^n
ShiftDigits(a, n) == IF Len(a) = 0 THEN <<>> ELSE [i \in 1..n |-> 0] \o a

RECURSIVE MulFrom(_, _, _, _)
MulFrom(a, b, j, acc) ==
    IF j > Len(b)
    THEN acc
    ELSE MulFrom(a, b, j + 1, BigAdd(acc, ShiftDigits(BigMulDigit(a, b[j]), j - 1)))

BigMul(a, b) == MulFrom(a, b, 1, <<>>)

\* a * 2^k
BigShl(a, k) == ShiftDigits(BigMulDigit(a, 2 ^ (k % 15)), k \div 15)

\* the digits of a from digit q + 1 on, moved down by r bits
ShrBits(a, q, r) ==
    Trim([i \in 1..(Len(a) - q) |->
            (a[i + q] \div (2 ^ r)) + (Digit(a, i + q + 1) % (2 ^ r)) * (2 ^ (15 - r))])

\* a \div 2^k
BigShr(a, k) ==
    IF k \div 15 >= Len(a) THEN <<>> ELSE ShrBits(a, k \div 15, k % 15)

\* the bit of a at position pos, the lowest being position 0
BigBit(a, pos) == (Digit(a, pos \div 15 + 1) \div (2 ^ (pos % 15))) % 2

\* some bit of a below position k is set
BigLowBits(a, k) ==
    \/ \E i \in 1..Len(a) : i <= k \div 15 /\ a[i] # 0
    \/ Digit(a, k \div 15 + 1) % (2 ^ (k % 15)) # 0

DigitLen(x) == CHOOSE k \in 1..15 : 2 ^ (k - 1) <= x /\ x < 2 ^ k

\* the number of bits of a
BigLen(a) == IF Len(a) = 0 THEN 0 ELSE 15 * (Len(a) - 1) + DigitLen(a[Len(a)])

\* the position of the lowest set bit of a # 0
BigLowest(a) == CHOOSE pos \in 0..(BigLen(a) - 1) :
    BigBit(a, pos) = 1 /\ ~BigLowBits(a, pos)

\* the q with b * q <= rem < b * (q + 1), for rem < b * 32768: at most est,
\* the quotient of the leading bits of rem by the leading 15 bits of b, and
\* at least est - 2
QuotientDigit(rem, b, est) ==
    CHOOSE q \in Max2(0, est - 2)..Min2(est, 32767) :
        /\ BigCmp(BigMulDigit(b, q), rem) <= 0
        /\ BigCmp(BigMulDigit(b, q + 1), rem) > 0

\* rem and b without their s lowest bits
Estimate(rem, b, s) == IntOf(BigShr(rem, s)) \div IntOf(BigShr(b, s))

\* a \div b and a % b for b # 0 by long division over the digits of a,
\* from digit i down
RECURSIVE DivFrom(_, _, _, _, _)
DivDigit(a, b, i, quo, rem, q) ==
    DivFrom(a, b, i - 1, <<q>> \o quo, BigSub(rem, BigMulDigit(b, q)))
DivStep(a, b, i, quo, rem) ==
    DivDigit(a, b, i, quo, rem,
             QuotientDigit(rem, b, Estimate(rem, b, Max2(0, BigLen(b) - 15))))
DivFrom(a, b, i, quo, rem) ==
    IF i = 0
    THEN <<Trim(quo), rem>>
    ELSE DivStep(a, b, i, quo, Trim(<<a[i]>> \o rem))

\* the first Len(b) - 1 digits of a are below b
BigDivMod(a, b) ==
    IF Len(a) < Len(b)
    THEN <<<<>>, a>>
    ELSE DivFrom(a, b, Len(a) - Len(b) + 1, <<>>, SubSeq(a, Len(a) - Len(b) + 2, Len(a)))

-----------------------------------------------------------------------------
(* f64 as the matrices compute with it: IEEE 754 binary64 with every sum,  *)
(* difference, product and quotient rounded to the nearest value of 53     *)
(* significant bits, ties to the even one.  A value is                     *)
(* sign * sig * 2^exp with sig odd; zero has sign 0 (the sign of a zero,   *)
(* the infinities and NaN are not modelled: no value of the model leaves   *)
(* the exponent range, and the code divides by no zero).                   *)

\* f64::MANTISSA_DIGITS
Precision == 53

F64Zero == [sign |-> 0, sig |-> <<>>, exp |-> 0]

\* sign * n * 2^e, for n # 0 of at most Precision bits after its lowest
\* set bit, at position low
F64Odd(sign, n, e, low) == [sign |-> sign, sig |-> BigShr(n, low), exp |-> e + low]

F64Exact(sign, n, e) ==
    IF n = <<>> THEN F64Zero ELSE F64Odd(sign, n, e, BigLowest(n))

\* round to nearest, ties to even: the bits of n below position drop are
\* dropped; inexact says that n itself lost bits below its lowest
RoundsUp(n, drop, inexact) ==
    /\ BigBit(n, drop - 1) = 1
    /\ \/ inexact
       \/ BigLowBits(n, drop - 1)
       \/ BigBit(n, drop) = 1

F64Drop(sign, n, e, drop, inexact) ==
    IF RoundsUp(n, drop, inexact)
    THEN F64Exact(sign, BigAdd(BigShr(n, drop), <<1>>), e + drop)
    ELSE F64Exact(sign, BigShr(n, drop), e + drop)

\* the f64 nearest to sign * n * 2^e
F64Round(sign, n, e, inexact) ==
    IF BigLen(n) <= Precision
    THEN F64Exact(sign, n, e)
    ELSE F64Drop(sign, n, e, BigLen(n) - Precision, inexact)

\* an integer of the model as f64 (exact below 2^53)
F64Of(k) == IF k < 0 THEN F64Exact(-1, BigOf(-k), 0)
            ELSE IF k = 0 THEN F64Zero
            ELSE F64Exact(1, BigOf(k), 0)

F64Neg(x) == [x EXCEPT !.sign = -x.sign]

\* x * y
F64Mul(x, y) ==
    IF x.sign = 0 \/ y.sign = 0 THEN F64Zero
    ELSE F64Round(x.sign * y.sign, BigMul(x.sig, y.sig), x.exp + y.exp, FALSE)

\* the sum of sx * a * 2^e and sy * b * 2^e
F64Sum(sx, a, sy, b, e) ==
    IF sx = sy THEN F64Round(sx, BigAdd(a, b), e, FALSE)
    ELSE IF BigCmp(a, b) > 0 THEN F64Round(sx, BigSub(a, b), e, FALSE)
    ELSE IF BigCmp(a, b) < 0 THEN F64Round(sy, BigSub(b, a), e, FALSE)
    ELSE F64Zero

F64Align(x, y, e) ==
    F64Sum(x.sign, BigShl(x.sig, x.exp - e), y.sign, BigShl(y.sig, y.exp - e), e)

\* x + y
F64Add(x, y) ==
    IF x.sign = 0 THEN y
    ELSE IF y.sign = 0 THEN x
    ELSE F64Align(x, y, IF x.exp < y.exp THEN x.exp ELSE y.exp)

\* x - y
F64Sub(x, y) == F64Add(x, F64Neg(y))

\* the quotient of a * 2^up by b, and whether it left a remainder
F64Quotient(sign, qr, e) == F64Round(sign, qr[1], e, qr[2] # <<>>)

F64Scaled(x, y, up) ==
    F64Quotient(x.sign * y.sign, BigDivMod(BigShl(x.sig, up), y.sig), x.exp - y.exp - up)

\* x / y for y # 0: the quotient is taken to at least two bits more than
\* Precision
F64Div(x, y) ==
    IF x.sign = 0 THEN F64Zero
    ELSE F64Scaled(x, y, Max2(0, Precision + 2 + BigLen(y.sig) - BigLen(x.sig)))

\* x.abs() < f64::MIN_POSITIVE, that is 2^-1022
F64Negligible(x) == x.sign = 0 \/ x.exp + BigLen(x.sig) - 1 < -1022

\* x < y
F64Less(x, y) == F64Sub(x, y).sign = -1

-----------------------------------------------------------------------------
(* The square matrices (src/src/geometry.rs:132-751).  A matrix is a       *)
(* sequence of rows of f64; the code's self[row][col], counted from 0, is  *)
(* At(m, row, col).                                                        *)

At(m, row, col) == m[row + 1][col + 1]

\* From<[f64; 9]>, From<[f64; 16]>, MatNxNf::new: the entries, here given
\* row by row as integers
MatFrom(rows) ==
    [r \in DOMAIN rows |-> [c \in DOMAIN rows[r] |-> F64Of(rows[r][c])]]

\* a * b - c * d, the form of every arm of Mat3x3f::cofactor
Cross(a, b, c, d) == F64Sub(F64Mul(a, b), F64Mul(c, d))

\* Mat3x3f::cofactor
Cofactor3(m, row, col) ==
    CASE row = 0 /\ col = 0 -> Cross(At(m, 1, 1), At(m, 2, 2), At(m, 1, 2), At(m, 2, 1))
      [] row = 1 /\ col = 0 -> Cross(At(m, 0, 2), At(m, 2, 1), At(m, 0, 1), At(m, 2, 2))
      [] row = 2 /\ col = 0 -> Cross(At(m, 0, 1), At(m, 1, 2), At(m, 0, 2), At(m, 1, 1))
      [] row = 0 /\ col = 1 -> Cross(At(m, 1, 2), At(m, 2, 0), At(m, 1, 0), At(m, 2, 2))
      [] row = 1 /\ col = 1 -> Cross(At(m, 0, 0), At(m, 2, 2), At(m, 0, 2), At(m, 2, 0))
      [] row = 2 /\ col = 1 -> Cross(At(m, 0, 2), At(m, 1, 0), At(m, 0, 0), At(m, 1, 2))
      [] row = 0 /\ col = 2 -> Cross(At(m, 1, 0), At(m, 2, 1), At(m, 1, 1), At(m, 2, 0))
      [] row = 1 /\ col = 2 -> Cross(At(m, 0, 1), At(m, 2, 0), At(m, 0, 0), At(m, 2, 1))
      [] row = 2 /\ col = 2 -> Cross(At(m, 0, 0), At(m, 1, 1), At(m, 0, 1), At(m, 1, 0))

\* the expansion along row 0 that det and invert both start with
Expand3(m, c00, c01, c02) ==
    F64Add(F64Add(F64Mul(At(m, 0, 0), c00), F64Mul(At(m, 0, 1), c01)),
            F64Mul(At(m, 0, 2), c02))

\* Mat3x3f::det
Det3(m) == Expand3(m, Cofactor3(m, 0, 0), Cofactor3(m, 0, 1), Cofactor3(m, 0, 2))

\* the adjugate over det: entry (row, col) is cofactor(col, row) / det
Adjugate3(m, det) ==
    [r \in 1..3 |-> [c \in 1..3 |-> F64Div(Cofactor3(m, c - 1, r - 1), det)]]

Invert3With(m, det) ==
    IF F64Negligible(det) THEN None ELSE Some(Adjugate3(m, det))

\* Mat3x3f::invert
Invert3(m) == Invert3With(m, Det3(m))

\* the indices 0..3 without k, in order
Without(k) ==
    CASE k = 0 -> <<1, 2, 3>> [] k = 1 -> <<0, 2, 3>>
      [] k = 2 -> <<0, 1, 3>> [] k = 3 -> <<0, 1, 2>>

\* the 3x3 matrix of the rows rs and the columns cs of m
Minor(m, rs, cs) == [r \in 1..3 |-> [c \in 1..3 |-> At(m, rs[r], cs[c])]]

Signed(row, col, d) == IF (row + col) % 2 = 1 THEN F64Neg(d) ELSE d

\* Mat4x4f::cofactor: each of its sixteen arms is the Mat3x3f::det of the
\* rows without `row` and the columns without `col`, negated where row + col
\* is odd
Cofactor4(m, row, col) == Signed(row, col, Det3(Minor(m, Without(row), Without(col))))

Expand4(m, c00, c01, c02, c03) ==
    F64Add(F64Add(F64Add(F64Mul(At(m, 0, 0), c00), F64Mul(At(m, 0, 1), c01)),
                    F64Mul(At(m, 0, 2), c02)),
            F64Mul(At(m, 0, 3), c03))

\* Mat4x4f::det
Det4(m) ==
    Expand4(m, Cofactor4(m, 0, 0), Cofactor4(m, 0, 1), Cofactor4(m, 0, 2),
            Cofactor4(m, 0, 3))

Adjugate4(m, det) ==
    [r \in 1..4 |-> [c \in 1..4 |-> F64Div(Cofactor4(m, c - 1, r - 1), det)]]

Invert4With(m, det) ==
    IF F64Negligible(det) THEN None ELSE Some(Adjugate4(m, det))

\* Mat4x4f::invert
Invert4(m) == Invert4With(m, Det4(m))

-----------------------------------------------------------------------------
(* MatNxMf and MatNxNf (src/src/geometry.rs:545-751): elimination with     *)
(* row swaps.  Rows and columns are counted from 0 as in the code.         *)

F64One == F64Of(1)

\* MatNxMf::swap_rows
SwapRows(m, row1, row2) ==
    [m EXCEPT ![row1 + 1] = m[row2 + 1], ![row2 + 1] = m[row1 + 1]]

\* MatNxMf::scale_row
ScaleRow(m, row, scalar) ==
    [m EXCEPT ![row + 1] = [c \in DOMAIN @ |-> F64Mul(@[c], scalar)]]

\* MatNxMf::subtract_scaled
SubtractScaled(m, target_row, source_row, scalar) ==
    [m EXCEPT ![target_row + 1] =
        [c \in DOMAIN @ |-> F64Sub(@[c], F64Mul(scalar, m[source_row + 1][c]))]]

\* MatNxMf::augmented: [M | I]
Augmented(m, n) ==
    [r \in 1..n |->
        [c \in 1..(2 * n) |->
            IF c <= n THEN m[r][c] ELSE IF c = n + r THEN F64One ELSE F64Zero]]

FirstRowOr(S, i) == IF S = {} THEN i ELSE Min(S)

\* the pivot search of det and invert: the first row below i whose entry in
\* column i is not negligible, or i when there is none
PivotRow(aux, i, n) ==
    FirstRowOr({j \in (i + 1)..(n - 1) : ~F64Negligible(At(aux, j, i))}, i)

\* det: `for j in i + 1..n`, from row j on
RECURSIVE EliminateBelow(_, _, _, _, _)
EliminateBelow(aux, i, j, n, pivot_value) ==
    IF j >= n
    THEN aux
    ELSE EliminateBelow(SubtractScaled(aux, j, i, F64Div(At(aux, j, i), pivot_value)),
                        i, j + 1, n, pivot_value)

RECURSIVE DetFrom(_, _, _, _)
RECURSIVE DetSwapped(_, _, _, _, _)
RECURSIVE DetPivot(_, _, _, _, _)

\* det: `det *= pivot_value` and the elimination below the pivot
DetPivot(aux, det, i, n, pivot_value) ==
    DetFrom(EliminateBelow(aux, i, i + 1, n, pivot_value),
            F64Mul(det, pivot_value), i + 1, n)

\* det: after the pivot search
DetSwapped(aux, det, i, n, pivot_row) ==
    IF pivot_row = i
    THEN F64Zero
    ELSE DetPivot(SwapRows(aux, i, pivot_row), det, i, n, At(aux, pivot_row, i))

\* det: `for i in 0..n - 1`, from column i on, then `det *= aux[n-1][n-1]`
DetFrom(aux, det, i, n) ==
    IF i >= n - 1
    THEN F64Mul(det, At(aux, n - 1, n - 1))
    ELSE IF F64Negligible(At(aux, i, i))
         THEN DetSwapped(aux, det, i, n, PivotRow(aux, i, n))
         ELSE DetPivot(aux, det, i, n, At(aux, i, i))

\* MatNxNf::det for a matrix of dimension n >= 1
DetN(m, n) == DetFrom(m, F64One, 0, n)

\* invert: `for j in 0..n { if j != i`, from row j on
RECURSIVE EliminateOthers(_, _, _, _)
EliminateOthers(aug, i, j, n) ==
    IF j >= n
    THEN aug
    ELSE IF j = i
         THEN EliminateOthers(aug, i, j + 1, n)
         ELSE EliminateOthers(SubtractScaled(aug, j, i, At(aug, j, i)), i, j + 1, n)

\* invert: the right half of the augmented matrix
RightHalf(aug, n) == [r \in 1..n |-> [c \in 1..n |-> aug[r][n + c]]]

RECURSIVE InvertFrom(_, _, _)
RECURSIVE InvertSwapped(_, _, _, _)
RECURSIVE InvertPivot(_, _, _, _)

\* invert: the pivot row scaled to pivot 1, the column cleared elsewhere
InvertPivot(aug, i, n, pivot_value) ==
    InvertFrom(EliminateOthers(ScaleRow(aug, i, F64Div(F64One, pivot_value)), i, 0, n),
               i + 1, n)

\* invert: after the pivot search
InvertSwapped(aug, i, n, pivot_row) ==
    IF pivot_row = i
    THEN None
    ELSE InvertPivot(SwapRows(aug, i, pivot_row), i, n, At(aug, pivot_row, i))

\* invert: `for i in 0..n`, from column i on
InvertFrom(aug, i, n) ==
    IF i >= n
    THEN Some(RightHalf(aug, n))
    ELSE IF F64Negligible(At(aug, i, i))
         THEN InvertSwapped(aug, i, n, PivotRow(aug, i, n))
         ELSE InvertPivot(aug, i, n, At(aug, i, i))

\* MatNxNf::invert
InvertN(m, n) == InvertFrom(Augmented(m, n), 0, n)

\* the sum over idx of self[row][idx] * rhs[idx][col], from idx on
RECURSIVE MulEntry(_, _, _, _, _, _, _)
MulEntry(a, b, row, col, idx, n, acc) ==
    IF idx > n
    THEN acc
    ELSE MulEntry(a, b, row, col, idx + 1, n,
                  F64Add(acc, F64Mul(a[row][idx], b[idx][col])))

\* impl Mul for MatNxNf (Mat3x3f and Mat4x4f unroll the same sums)
MatMul(a, b, n) ==
    [row \in 1..n |-> [col \in 1..n |-> MulEntry(a, b, row, col, 1, n, F64Zero)]]

\* MatNxNf::identity
Identity(n) == [r \in 1..n |-> [c \in 1..n |-> IF r = c THEN F64One ELSE F64Zero]]

-----------------------------------------------------------------------------
(* The matrices the model builds: every matrix of dimension 2, 3 or 4      *)
(* whose rows are multiples of unit rows, the row of ones, the row         *)
(* 1, 2, .., n or the row 3, 7, .., 4n - 1, and the matrices of the tests. *)
(* Among them are singular ones, invertible ones with zeros on the         *)
(* diagonal, and pivots whose reciprocal is no f64.                        *)

UnitRow(n, i, k) == [c \in 1..n |-> IF c = i THEN k ELSE 0]

RowsOf(n) ==
    {UnitRow(n, i, k) : i \in 1..n, k \in 1..MaxCoeff}
        \cup {[c \in 1..n |-> 1], [c \in 1..n |-> c], [c \in 1..n |-> 4 * c - 1]}

TestMatrices ==
    { <<<<2, 1, 5>>, <<7, 4, 9>>, <<6, 5, 8>>>>,
      <<<<1, 2, 3>>, <<4, 5, 6>>, <<7, 8, 9>>>>,
      <<<<2, 3, 1, 5>>, <<7, 4, 9, 8>>, <<6, 5, 8, 7>>, <<9, 2, 6, 5>>>>,
      <<<<1, 2, 3, 4>>, <<5, 6, 7, 8>>, <<9, 10, 11, 12>>, <<13, 14, 15, 16>>>> }

Matrices ==
    [1..2 -> RowsOf(2)] \cup [1..3 -> RowsOf(3)] \cup [1..4 -> RowsOf(4)]
        \cup TestMatrices

-----------------------------------------------------------------------------
(* Calls of det and invert on a matrix. *)

InitMatrix ==
    /\ vertices = <<>>
    /\ normals = <<>>
    /\ textures = <<>>
    /\ faces = <<>>
    /\ lineNo = 0
    /\ lastLine = <<>>
    /\ result = Running
    /\ RendererNotBuilt
    /\ matrix \in Matrices
    /\ mcall = [op |-> "none"]
    /\ NoTriangle
    /\ NoApp
    /\ NoMain
    /\ NoCall

\* the call op on the matrix returned r
Called(op, r) ==
    /\ mcall.op = "none"
    /\ mcall' = [op |-> op, result |-> r]
    /\ UNCHANGED <<loaderVars, rasterVars, triangleVars, appVars, mainVars, rcall, matrix>>

\* MatNxNf::new(n, entries).det()
CallDetN == Called("MatNxNf::det", DetN(MatFrom(matrix), Len(matrix)))

\* MatNxNf::new(n, entries).invert()
CallInvertN == Called("MatNxNf::invert", InvertN(MatFrom(matrix), Len(matrix)))

\* Mat3x3f::from(entries).det()
CallDet3 == Len(matrix) = 3 /\ Called("Mat3x3f::det", Det3(MatFrom(matrix)))

\* Mat3x3f::from(entries).invert()
CallInvert3 == Len(matrix) = 3 /\ Called("Mat3x3f::invert", Invert3(MatFrom(matrix)))

\* Mat4x4f::from(entries).det()
CallDet4 == Len(matrix) = 4 /\ Called("Mat4x4f::det", Det4(MatFrom(matrix)))

\* Mat4x4f::from(entries).invert()
CallInvert4 == Len(matrix) = 4 /\ Called("Mat4x4f::invert", Invert4(MatFrom(matrix)))

NextMatrix ==
    \/ CallDetN
    \/ CallInvertN
    \/ CallDet3
    \/ CallInvert3
    \/ CallDet4
    \/ CallInvert4

SpecMatrix == InitMatrix /\ [][NextMatrix]_vars

-----------------------------------------------------------------------------
(* What the claims say about a matrix: its determinant by cofactor          *)
(* expansion along the first row, over the integer entries.                *)

DropColumn(row, c) == [k \in 1..(Len(row) - 1) |-> IF k < c THEN row[k] ELSE row[k + 1]]

\* the rows below the first, without column c
FirstRowMinor(rows, c) == [r \in 1..(Len(rows) - 1) |-> DropColumn(rows[r + 1], c)]

RECURSIVE Determinant(_)
RECURSIVE ExpansionFrom(_, _)

ExpansionFrom(rows, c) ==
    IF c > Len(rows)
    THEN 0
    ELSE (IF c % 2 = 1 THEN 1 ELSE -1) * rows[1][c] * Determinant(FirstRowMinor(rows, c))
         + ExpansionFrom(rows, c + 1)

Determinant(rows) == IF Len(rows) = 1 THEN rows[1][1] ELSE ExpansionFrom(rows, 1)

\* the tolerance of the tests: `const EPSILON: f64 = 1e-4_f64`
EPSILON == F64Div(F64Of(1), F64Of(10000))

\* `(x - y).abs() < EPSILON`, as the tests compare
Near(x, y) == F64Sub([sign |-> 1, sig |-> F64Sub(x, y).sig, exp |-> F64Sub(x, y).exp],
                     EPSILON).sign = -1 \/ x = y

-----------------------------------------------------------------------------
(* C11 *)

\* C11: MatNxNf::det returns the determinant that cofactor expansion gives,
\* within the tolerance of the tests, also for a matrix that makes it swap
\* rows.
C11_DetEqualsCofactorExpansion ==
    mcall.op = "MatNxNf::det" => Near(mcall.result, F64Of(Determinant(matrix)))

-----------------------------------------------------------------------------
(* C12 *)

InvertCalls == {"MatNxNf::invert", "Mat3x3f::invert", "Mat4x4f::invert"}

\* every entry of p is within the tolerance of the identity's
NearIdentity(p, n) ==
    \A row \in 1..n : \A col \in 1..n : Near(p[row][col], Identity(n)[row][col])

\* what invert owes for the matrix m of dimension n with determinant d
C12_Holds(r, m, n, d) ==
    IF d = 0
    THEN r = None
    ELSE r.some /\ NearIdentity(MatMul(m, r.val, n), n)

\* C12: invert, of Mat3x3f, Mat4x4f and MatNxNf alike, returns None for a
\* singular matrix and for an invertible one a matrix whose product with
\* the original is the identity within the tolerance of the tests, also
\* where the generic path has to swap rows; the fixed-size and the generic
\* path therefore agree on which matrices are invertible.
C12_InvertInvertsOrNone ==
    mcall.op \in InvertCalls
    => C12_Holds(mcall.result, MatFrom(matrix), Len(matrix), Determinant(matrix))

-----------------------------------------------------------------------------
(* Calls of Triangle::barycentric on a triangle.  The vertices have even   *)
(* coordinates, so that the midpoints of the edges are points of the       *)
(* model too; the query points lie in and around the triangles, in the     *)
(* plane z = 0 where render_triangle_fn asks, and off it.                  *)

MaxGrid == 1

VertexPoints == {<<2 * x, 2 * y, z>> : x \in 0..MaxGrid, y \in 0..MaxGrid, z \in {0, 2}}

QueryPoints ==
    {<<x, y, z>> : x \in (-1)..(2 * MaxGrid + 1), y \in (-1)..(2 * MaxGrid + 1), z \in 0..2}

\* Triangle::new(p1, p2, p3) has returned
InitTriangle ==
    /\ vertices = <<>>
    /\ normals = <<>>
    /\ textures = <<>>
    /\ faces = <<>>
    /\ lineNo = 0
    /\ lastLine = <<>>
    /\ result = Running
    /\ RendererNotBuilt
    /\ NoMatrix
    /\ \E p1 \in VertexPoints, p2 \in VertexPoints, p3 \in VertexPoints :
          triangle = TriangleNew(p1, p2, p3)
    /\ bcall = [op |-> "none"]
    /\ NoApp
    /\ NoMain
    /\ NoCall

\* triangle.barycentric(p)
CallBarycentric(p) ==
    /\ bcall.op = "none"
    /\ bcall' = [op |-> "barycentric", p |-> p, result |-> Barycentric(triangle, p)]
    /\ UNCHANGED <<loaderVars, rasterVars, matrixVars, appVars, mainVars, rcall, triangle>>

NextTriangle == \E p \in QueryPoints : CallBarycentric(p)

SpecTriangle == InitTriangle /\ [][NextTriangle]_vars

-----------------------------------------------------------------------------
(* What the claims say about a call of barycentric, from the vertices and  *)
(* the point alone.                                                        *)

EdgeTo2 == Sub(triangle.p2, triangle.p1)
EdgeTo3 == Sub(triangle.p3, triangle.p1)
ToPoint == Sub(bcall.p, triangle.p1)

\* the Gram determinant of the two edges
Gram == Dot(EdgeTo2, EdgeTo2) * Dot(EdgeTo3, EdgeTo3) - Dot(EdgeTo2, EdgeTo3) * Dot(EdgeTo2, EdgeTo3)

\* v and w are these over Gram
OverV == Dot(EdgeTo2, ToPoint) * Dot(EdgeTo3, EdgeTo3) - Dot(EdgeTo2, EdgeTo3) * Dot(EdgeTo3, ToPoint)
OverW == Dot(EdgeTo2, EdgeTo2) * Dot(EdgeTo3, ToPoint) - Dot(EdgeTo2, ToPoint) * Dot(EdgeTo2, EdgeTo3)

\* n / Gram is NaN (0 / 0), infinite, below 0 or above 1
NaNOrOutside(n) == Gram = 0 \/ n < 0 \/ n > Gram

-----------------------------------------------------------------------------
(* C13 *)

\* C13: barycentric returns None exactly when v or w is NaN or outside
\* [0,1], and otherwise the triple (1 - v - w, v, w).
C13_NoneExactlyOutsideUnit ==
    bcall.op = "barycentric"
    => IF NaNOrOutside(OverV) \/ NaNOrOutside(OverW)
       THEN bcall.result = None
       ELSE bcall.result = Some(<<Frac(Gram - OverV - OverW, Gram),
                                  Frac(OverV, Gram), Frac(OverW, Gram)>>)

\* a call returned weights with v and w strictly between 0 and 1
C13_Witness ==
    /\ bcall.op = "barycentric"
    /\ bcall.result.some
    /\ 0 < OverV /\ OverV < Gram
    /\ 0 < OverW /\ OverW < Gram

-----------------------------------------------------------------------------
(* C14 *)

Whole(k) == <<k, 1>>
Half == <<1, 2>>

\* 2 * p = a + b
MidpointOf(p, a, b) == \A k \in 1..3 : 2 * p[k] = a[k] + b[k]

\* the weight f lies in [0,1]
InUnit(f) == 0 <= f[1] /\ f[1] <= f[2]

\* coordinate k of bc[1] * p1 + bc[2] * p2 + bc[3] * p3
Combined(bc, k) ==
    FracAdd(FracAdd(FracScale(triangle.p1[k], bc[1]), FracScale(triangle.p2[k], bc[2])),
            FracScale(triangle.p3[k], bc[3]))

\* the point asked for is the combination bc of the vertices: with weights
\* in [0,1] that sum to 1 it lies in the triangle, and a point in the
\* triangle has no other weights
CombinesTo(bc, p) == \A k \in 1..3 : Combined(bc, k) = Whole(p[k])

C14_AtVertices ==
    /\ bcall.p = triangle.p1 => bcall.result = Some(<<Whole(1), Whole(0), Whole(0)>>)
    /\ bcall.p = triangle.p2 => bcall.result = Some(<<Whole(0), Whole(1), Whole(0)>>)
    /\ bcall.p = triangle.p3 => bcall.result = Some(<<Whole(0), Whole(0), Whole(1)>>)

C14_AtMidpoints ==
    /\ MidpointOf(bcall.p, triangle.p1, triangle.p2)
        => bcall.result = Some(<<Half, Half, Whole(0)>>)
    /\ MidpointOf(bcall.p, triangle.p2, triangle.p3)
        => bcall.result = Some(<<Whole(0), Half, Half>>)
    /\ MidpointOf(bcall.p, triangle.p1, triangle.p3)
        => bcall.result = Some(<<Half, Whole(0), Half>>)

\* a point outside the triangle gets a weight below 0 or above 1: weights
\* that are all in [0,1] are those of a point in the triangle
C14_Outside ==
    (bcall.result.some /\ \A i \in 1..3 : InUnit(bcall.result.val[i]))
    => CombinesTo(bcall.result.val, bcall.p)

C14_SumsToOne ==
    bcall.result.some
    => FracAdd(FracAdd(bcall.result.val[1], bcall.result.val[2]), bcall.result.val[3])
        = Whole(1)

\* C14: for a triangle that is not degenerate, barycentric gives (1,0,0),
\* (0,1,0), (0,0,1) at p1, p2, p3 and 0.5, 0.5, 0 at the midpoint of an
\* edge; a point outside the triangle gets a weight below 0 or above 1; and
\* every triple returned sums to 1.
C14_VerticesMidpointsOutsideSum ==
    (bcall.op = "barycentric" /\ Gram # 0)
    => /\ C14_AtVertices
       /\ C14_AtMidpoints
       /\ C14_Outside
       /\ C14_SumsToOne

-----------------------------------------------------------------------------
(* C15 *)

\* barycentric calls on triangles, and frames of render_triangle_fn calls
SpecTriangleRaster ==
    (InitTriangle \/ InitRaster) /\ [][NextTriangle \/ NextRaster]_vars

\* the vertices coincide or lie on one line: the cross product of the two
\* edges from p1 is the zero vector
Collinear(p1, p2, p3) ==
    /\ (p2[2] - p1[2]) * (p3[3] - p1[3]) = (p2[3] - p1[3]) * (p3[2] - p1[2])
    /\ (p2[3] - p1[3]) * (p3[1] - p1[1]) = (p2[1] - p1[1]) * (p3[3] - p1[3])
    /\ (p2[1] - p1[1]) * (p3[2] - p1[2]) = (p2[2] - p1[2]) * (p3[1] - p1[1])

\* a step that is one call of barycentric
StepBarycentric == bcall.op = "none" /\ bcall'.op = "barycentric"

C15_RenderedDegenerate ==
    StepRender /\ Collinear(frame'[Len(frame')].p1, frame'[Len(frame')].p2,
                            frame'[Len(frame')].p3)

\* C15: for a degenerate triangle, of coincident or collinear vertices,
\* barycentric returns None whatever the point, and a call of
\* render_triangle_fn for it writes no pixel and no depth.
C15_DegenerateContainsNothing ==
    [][ /\ (StepBarycentric /\ Collinear(triangle.p1, triangle.p2, triangle.p3))
            => bcall'.result = None
        /\ C15_RenderedDegenerate => (pixels' = pixels /\ zbuffer' = zbuffer) ]_vars

\* barycentric was asked about a triangle of two coincident vertices, at
\* its own vertex p1
C15_Witness ==
    /\ bcall.op = "barycentric"
    /\ Collinear(triangle.p1, triangle.p2, triangle.p3)
    /\ triangle.p2 = triangle.p3
    /\ triangle.p1 # triangle.p2
    /\ bcall.p = triangle.p1
    /\ bcall.result = None

-----------------------------------------------------------------------------
(* The frame loop of app, one step of it at a time                         *)
(* (src/src/bin/tinyrs.rs:27-87). The mesh is a number of faces; where a   *)
(* face lands on the canvas depends on the camera, so a face is rendered   *)
(* as any one of FaceShapes. SDL queues the input events as they arrive,   *)
(* at any point of the loop, and poll_iter takes them oldest first.        *)

MaxFaces == 2
MaxEvents == 1

\* let mut camera = Vec3f::new(0.0, 0.0, 3.0), its z in quarters
StartCamera == 12
\* the bounds of f64::clamp(camera.z, 2.0, 5.0), in quarters
NearestCamera == 8
FarthestCamera == 20

Event(type, key, y) == [type |-> type, key |-> key, y |-> y]

\* the y of the MouseWheel events of the model
WheelTurns == {-2, 0, 1}

\* the sdl2 events of the model: Quit, two keys down, of which the second
\* falls to the `_` of the match, and the wheel turned
Events ==
    {Event("Quit", "", 0), Event("KeyDown", "Escape", 0), Event("KeyDown", "A", 0)}
    \cup {Event("MouseWheel", "", y) : y \in WheelTurns}

\* the triangles a face of the model comes to: one over the whole canvas and
\* one off the canvas, which draws nothing
FaceShapes == {sh \in Shapes : sh.color \in {"floor", "beyond"}}

\* a match that knows Event::Quit only
IsQuit_QuitOnly(e) == e.type = "Quit"

\* Event::Quit {..} | Event::KeyDown { keycode: Some(Keycode::Escape), .. }
IsQuit(e) == e.type = "Quit" \/ (e.type = "KeyDown" /\ e.key = "Escape")

\* i32::signum
Signum(y) == IF y > 0 THEN 1 ELSE IF y < 0 THEN -1 ELSE 0

\* a clamp that lets every value through
Clamp_Through(z, lo, hi) == z

\* f64::clamp
Clamp(z, lo, hi) == IF z < lo THEN lo ELSE IF z > hi THEN hi ELSE z

\* camera.z += 0.25 * y.signum() as f64; camera.z = f64::clamp(camera.z, 2.0, 5.0)
Scrolled(z, y) == Clamp(z + Signum(y), NearestCamera, FarthestCamera)

\* what the arm of the match for the event e leaves in camera.z
CameraAfter(z, e) == IF e.type = "MouseWheel" THEN Scrolled(z, e.y) ELSE z

\* -1.0 / 0.0, written like the fractions as -1 over 0
MinusInfinity == <<-1, 0>>

\* -1.0 / camera.z as a fraction, for camera.z of z quarters; a division by
\* zero gives the infinity of binary64
ProjectionEntry(z) ==
    IF z = 0 THEN MinusInfinity
    ELSE IF z > 0 THEN Frac(-4, z) ELSE Frac(4, -z)

\* an Err that `?` lets pass
Propagates_Never(status) == FALSE

\* the `?` after render_face: an Err leaves app
Propagates(status) == status # "Ok"

\* a loop that leaves out every other face
FaceAfter_Skipping(i) == i + 2

\* the iterator of model.iter() moves on
FaceAfter(i) == i + 1

Step(name, i) == <<name, i>>

\* app after sdl_context.event_pump(), before the first pass of its loop
InitApp ==
    /\ vertices = <<>>
    /\ normals = <<>>
    /\ textures = <<>>
    /\ faces = <<>>
    /\ lineNo = 0
    /\ lastLine = <<>>
    /\ result = OkModel(<<>>)
    /\ resolution = [width |-> MaxWidth, height |-> MaxHeight]
    /\ zbuffer = ClearDepth(resolution)
    /\ pixels = ClearCanvas(resolution)
    /\ drawColor = Black
    /\ frame = <<>>
    /\ scan = <<>>
    /\ rstatus = "Rendering"
    /\ NoMatrix
    /\ NoTriangle
    /\ pc = "Clear"
    /\ mesh \in 0..MaxFaces
    /\ face = 0
    /\ queue = <<>>
    /\ camera = StartCamera
    /\ projection = <<>>
    /\ steps = <<>>
    /\ NoMain
    /\ NoCall

\* canvas.set_draw_color(black); canvas.clear(); let projection = ..
ClearFrame ==
    /\ pc = "Clear"
    /\ pixels' = ClearCanvas(resolution)
    /\ drawColor' = Black
    /\ projection' = ProjectionEntry(camera)
    /\ frame' = <<>>
    /\ scan' = <<>>
    /\ face' = 1
    /\ steps' = <<Step("clear", 0)>>
    /\ pc' = "Faces"
    /\ UNCHANGED <<loaderVars, matrixVars, triangleVars, mainVars, rcall, resolution, zbuffer,
                   rstatus, mesh, queue, camera>>

\* where app is after render_face has returned r
FaceRendered(r) ==
    /\ Rendered(r)
    /\ pc' = IF Propagates(r.status) THEN "Done" ELSE "Faces"
    /\ face' = IF r.status = "Ok" THEN FaceAfter(face) ELSE face

\* renderer.render_face(.., face, view_port, projection)?
RenderFace(sh, failAt) ==
    /\ pc = "Faces"
    /\ face <= mesh
    /\ frame' = Append(frame, sh)
    /\ steps' = Append(steps, Step("face", face))
    /\ FaceRendered(RenderTriangleFn(zbuffer, pixels, drawColor, resolution,
                                     TriangleNew(sh.p1, sh.p2, sh.p3), sh.color,
                                     failAt))
    /\ UNCHANGED <<loaderVars, matrixVars, triangleVars, mainVars, rcall, resolution, mesh,
                   queue, camera, projection>>

\* render_face returns Ok(()) and has drawn nothing: the face has not three
\* vertices, or one of its three normals faces away from the light
SkipFace ==
    /\ pc = "Faces"
    /\ face <= mesh
    /\ steps' = Append(steps, Step("face", face))
    /\ face' = FaceAfter(face)
    /\ UNCHANGED <<loaderVars, matrixVars, triangleVars, mainVars, rcall, rasterVars, pc, mesh,
                   queue, camera, projection>>

\* a fill that leaves the slice as it is
Fill_Nothing(zb, v) == zb

\* <[f64]>::fill
Fill(zb, v) == [i \in DOMAIN zb |-> v]

\* the for loop over the faces is through: zbuffer.fill(f64::MIN)
ResetDepth ==
    /\ pc = "Faces"
    /\ face > mesh
    /\ zbuffer' = Fill(zbuffer, F64_MIN)
    /\ steps' = Append(steps, Step("reset", 0))
    /\ pc' = "Drain"
    /\ UNCHANGED <<loaderVars, matrixVars, triangleVars, mainVars, rcall, resolution, pixels,
                   drawColor, frame, scan, rstatus, mesh, face, queue, camera,
                   projection>>

\* poll_iter yields the oldest event, and the match takes it: a quit breaks
\* the loop and app returns Ok(())
HandleEvent ==
    /\ pc = "Drain"
    /\ queue # <<>>
    /\ queue' = Tail(queue)
    /\ pc' = IF IsQuit(Head(queue)) THEN "Done" ELSE "Drain"
    /\ rstatus' = IF IsQuit(Head(queue)) THEN "Ok" ELSE rstatus
    /\ camera' = IF IsQuit(Head(queue)) THEN camera
                 ELSE CameraAfter(camera, Head(queue))
    /\ UNCHANGED <<loaderVars, matrixVars, triangleVars, mainVars, rcall, resolution, zbuffer,
                   pixels, drawColor, frame, scan, mesh, face, projection, steps>>

\* poll_iter yields None: the events are drained
DrainDone ==
    /\ pc = "Drain"
    /\ queue = <<>>
    /\ steps' = Append(steps, Step("drain", 0))
    /\ pc' = "Present"
    /\ UNCHANGED <<loaderVars, matrixVars, triangleVars, mainVars, rcall, rasterVars, mesh, face,
                   queue, camera, projection>>

\* canvas.present(), and back to the top of the loop
Present ==
    /\ pc = "Present"
    /\ steps' = Append(steps, Step("present", 0))
    /\ pc' = "Clear"
    /\ UNCHANGED <<loaderVars, matrixVars, triangleVars, mainVars, rcall, rasterVars, mesh, face,
                   queue, camera, projection>>

\* the user does something while app runs, wherever app is in its loop, and
\* SDL queues the event
Arrive(e) ==
    /\ pc \in {"Clear", "Faces", "Drain", "Present"}
    /\ Len(queue) < MaxEvents
    /\ queue' = Append(queue, e)
    /\ UNCHANGED <<loaderVars, matrixVars, triangleVars, mainVars, rcall, rasterVars, pc, mesh,
                   face, camera, projection, steps>>

\* the steps of app itself
StepApp ==
    \/ ClearFrame
    \/ \E sh \in FaceShapes, failAt \in DrawFailures : RenderFace(sh, failAt)
    \/ SkipFace
    \/ ResetDepth
    \/ HandleEvent
    \/ DrainDone
    \/ Present

NextApp ==
    \/ StepApp
    \/ \E e \in Events : Arrive(e)

SpecApp == InitApp /\ [][NextApp]_vars

\* a step app has before it wherever it has one at all: while a face is due
\* SkipFace is one, and any call of render_face for that face, whatever it
\* draws, ends its being due
StepDue ==
    \/ ClearFrame
    \/ SkipFace
    \/ ResetDepth
    \/ HandleEvent
    \/ DrainDone
    \/ Present

\* app is one thread that runs on: while it has a step before it, it takes one
SpecAppLive == SpecApp /\ WF_vars(StepDue)

-----------------------------------------------------------------------------
(* What the claims say about the frame loop. *)

\* the steps of a whole pass of the loop over a mesh of n faces
FullFrame(n) ==
    <<Step("clear", 0)>> \o [i \in 1..n |-> Step("face", i)]
    \o <<Step("reset", 0), Step("drain", 0), Step("present", 0)>>

IsPrefix(s, t) ==
    /\ Len(s) <= Len(t)
    /\ \A i \in 1..Len(s) : s[i] = t[i]

Done(ss, name) == \E i \in 1..Len(ss) : ss[i][1] = name

\* a pass begins
FrameBegins == steps' # steps /\ steps' = <<Step("clear", 0)>>

\* the events that end the loop
QuitEvents == {Event("Quit", "", 0), Event("KeyDown", "Escape", 0)}

\* the steps of every pass are a beginning of clear, face 1, .., face n,
\* reset, drain, present, and a pass begins after a whole one only
C16_InOrder ==
    /\ IsPrefix(steps', FullFrame(mesh))
    /\ FrameBegins => steps \in {<<>>, FullFrame(mesh)}

\* C16 as stated: the steps of a frame are taken in the order clear, every
\* face in mesh order, reset of the depth buffer, draining of the events,
\* present, a frame begins only when the frame before it is complete, and
\* when the loop has ended, a frame whose faces were all rendered has been
\* presented.
C16_EveryRenderedFramePresented ==
    [][ /\ C16_InOrder
        /\ (pc' = "Done" /\ Done(steps', "reset")) => Done(steps', "present")
      ]_vars

\* C16, amended: the steps of a frame are taken in the order clear, every
\* face in mesh order, reset of the depth buffer, draining of the events,
\* present, and a frame begins only when the frame before it is complete; a
\* frame whose faces were all rendered is presented unless a quit event or
\* an Escape key-down is drained in it, which ends the loop before the
\* present.
C16_FrameOrder ==
    [][ /\ C16_InOrder
        /\ (pc' = "Done" /\ Done(steps', "reset"))
           => /\ pc = "Drain"
              /\ queue # <<>>
              /\ Head(queue) \in QuitEvents
              /\ ~Done(steps', "present")
      ]_vars

\* a pass of the loop over a mesh of two faces or more is complete, the wheel
\* was turned in it, and it has drawn
C16_Witness ==
    /\ pc = "Clear"
    /\ mesh >= 2
    /\ steps = FullFrame(mesh)
    /\ frame # <<>>
    /\ \E i \in DOMAIN pixels : pixels[i] # Black
    /\ camera # StartCamera

\* C17: when the first face of a frame, the very first frame or a later one,
\* is about to be rasterized, the depth buffer has one entry for every pixel
\* and every entry is f64::MIN: no depth written in a frame is there in the
\* next.
C17_DepthEmptyAtFirstFace ==
    (pc = "Faces" /\ face = 1)
    => /\ DOMAIN zbuffer = 0..(resolution.width * resolution.height - 1)
       /\ \A i \in DOMAIN zbuffer : zbuffer[i] = <<-1, 0>>

\* the first face of a frame after the first is about to be rasterized: the
\* events of a frame before it, the wheel turned among them, are drained
C17_Witness ==
    /\ pc = "Faces"
    /\ face = 1
    /\ mesh >= 1
    /\ camera # StartCamera
    /\ steps = <<Step("clear", 0)>>
    /\ \A i \in DOMAIN zbuffer : zbuffer[i] = F64_MIN

\* the step in which poll_iter yields a quit event or an Escape key-down
DrainsQuit ==
    /\ pc = "Drain"
    /\ queue # <<>>
    /\ Head(queue) \in QuitEvents
    /\ queue' = Tail(queue)

\* clear, face 1, .., face n, reset: the faces of the frame are all rendered
AllFacesRendered(ss, n) ==
    ss = <<Step("clear", 0)>> \o [i \in 1..n |-> Step("face", i)]
         \o <<Step("reset", 0)>>

QuitPending == \E i \in 1..Len(queue) : queue[i] \in QuitEvents

\* C18: the step that drains a quit event or an Escape key-down ends the
\* loop: the faces of the frame have all been rendered before it, app returns
\* Ok(()), and once the loop has ended nothing is cleared, rendered, drained
\* or presented any more. A frame that has begun comes to the draining of its
\* events unless a draw error ends the loop, and a quit event or Escape
\* key-down that is in the queue leads to the end of the loop.
C18_QuitEndsTheLoop ==
    /\ [][ /\ DrainsQuit
              => /\ pc' = "Done"
                 /\ rstatus' = "Ok"
                 /\ AllFacesRendered(steps, mesh)
                 /\ steps' = steps
           /\ pc = "Done"
              => /\ pc' = "Done"
                 /\ rstatus' = rstatus
                 /\ steps' = steps
                 /\ pixels' = pixels
                 /\ zbuffer' = zbuffer
                 /\ queue' = queue
         ]_vars
    /\ (pc = "Clear") ~> (pc = "Drain" \/ (pc = "Done" /\ rstatus # "Ok"))
    /\ QuitPending ~> (pc = "Done")

\* the loop has ended with Ok(()) in a frame after the first whose faces, two
\* or more, are rendered and have drawn
C18_Witness ==
    /\ pc = "Done"
    /\ rstatus = "Ok"
    /\ mesh >= 2
    /\ AllFacesRendered(steps, mesh)
    /\ \E i \in DOMAIN pixels : pixels[i] # Black
    /\ camera # StartCamera

\* C19: camera.z is never less than 2.0 nor greater than 5.0, whatever events
\* of the wheel are drained; no step changes it by more than 0.25; and the
\* entry -1.0 / camera.z of the projection of a frame is the quotient by the
\* camera.z of that frame, never a division by zero. (camera.z is counted in
\* quarters: 2.0 is 8 and 5.0 is 20.)
C19_CameraStaysInRange ==
    [][ /\ 8 <= camera /\ camera <= 20
        /\ 8 <= camera' /\ camera' <= 20
        /\ camera' - camera \in {-1, 0, 1}
        /\ projection' # projection
           => /\ projection'[2] > 0
              /\ projection'[1] * camera = -4 * projection'[2]
      ]_vars

\* the wheel has been turned away until camera.z is 5.0, and the projection
\* of a frame is built with it
C19_Witness ==
    /\ camera = FarthestCamera
    /\ pc = "Faces"
    /\ projection = <<-1, 5>>

\* the step in which render_face returns a drawing-surface error
FaceFails == pc = "Faces" /\ rstatus' = "Err(draw_fpoint)"

\* C20: the step in which render_face returns a drawing-surface error ends
\* the loop: app returns that error, and no face is rendered, no event is
\* drained, nothing is presented and no frame begins after it.
C20_DrawErrorEndsTheLoop ==
    [][ /\ FaceFails
           => /\ pc' = "Done"
              /\ steps' = Append(steps, Step("face", face))
              /\ queue' = queue
        /\ (pc = "Done" /\ rstatus = "Err(draw_fpoint)")
           => /\ pc' = "Done"
              /\ rstatus' = rstatus
              /\ steps' = steps
              /\ queue' = queue
              /\ pixels' = pixels
              /\ zbuffer' = zbuffer
      ]_vars

\* the loop has ended with the error of the first of two or more faces,
\* with an event in the queue
C20_Witness ==
    /\ pc = "Done"
    /\ rstatus = "Err(draw_fpoint)"
    /\ face = 1
    /\ mesh >= 2
    /\ steps = <<Step("clear", 0), Step("face", 1)>>
    /\ queue # <<>>

-----------------------------------------------------------------------------
(* main and the start of app (src/src/bin/tinyrs.rs:27-50, 89-94): the     *)
(* calls that can fail before the loop, the loop itself as above, and what *)
(* main does with what app returns. Model::from_file is taken by what it   *)
(* returns: Ok for a mesh of some faces, or one of the errors it returns   *)
(* for a file of one line.                                                 *)

\* what SDL says when one of its calls fails
SdlMessage == "No available video device"

\* the errors from_file returns: File::open or a read fails, or the first
\* line of the file is one of Lines that does not parse
LoadErrors ==
    {ErrOf("FileReadError", <<"io::Error">>)}
    \cup ({LineStep(0, text, <<>>, <<>>, <<>>, <<>>).result : text \in Lines}
          \ {Running})

\* what CanvasBuilder::build returns
BuildOutcomes == {"Ok", "ContextError", "WindowBuildError", "IntegerOrSdlError"}

\* main has called app
InitMain ==
    /\ vertices = <<>>
    /\ normals = <<>>
    /\ textures = <<>>
    /\ faces = <<>>
    /\ lineNo = 0
    /\ lastLine = <<>>
    /\ result = [tag |-> "NotCalled"]
    /\ resolution = [width |-> MaxWidth, height |-> MaxHeight]
    /\ zbuffer = <<>>
    /\ pixels = <<>>
    /\ drawColor = Black
    /\ frame = <<>>
    /\ scan = <<>>
    /\ rstatus = "Rendering"
    /\ NoMatrix
    /\ NoTriangle
    /\ pc = "sdl2::init"
    /\ mesh = 0
    /\ face = 0
    /\ queue = <<>>
    /\ camera = 0
    /\ projection = <<>>
    /\ steps = <<>>
    /\ NoMain
    /\ NoCall

\* a call of app before its loop returns: on Ok app goes on to `next`, an Err
\* leaves app through `?`
Try(ok, next, err) ==
    /\ pc' = IF ok THEN next ELSE "Done"
    /\ rstatus' = IF ok THEN rstatus ELSE err

\* let sdl_context = sdl2::init()?
SdlInit(ok) ==
    /\ pc = "sdl2::init"
    /\ Try(ok, "build", "Err(sdl2::init)")
    /\ UNCHANGED <<loaderVars, matrixVars, triangleVars, mainVars, rcall, resolution,
                   zbuffer, pixels, drawColor, frame, scan, mesh, face, queue,
                   camera, projection, steps>>

\* CanvasBuilder::new(..).resolution(..).title(..).build()?
BuildCanvas(outcome) ==
    /\ pc = "build"
    /\ Try(outcome = "Ok", "from_file", "Err(" \o outcome \o ")")
    /\ pixels' = IF outcome = "Ok" THEN ClearCanvas(resolution) ELSE pixels
    /\ UNCHANGED <<loaderVars, matrixVars, triangleVars, mainVars, rcall, resolution,
                   zbuffer, drawColor, frame, scan, mesh, face, queue, camera,
                   projection, steps>>

\* let model = Model::from_file(filename)? returns r, a model of n faces
\* when r is Ok
LoadModel(r, n) ==
    /\ pc = "from_file"
    /\ result' = r
    /\ Try(r.tag = "Ok", "event_pump", "Err(from_file)")
    /\ mesh' = IF r.tag = "Ok" THEN n ELSE mesh
    /\ UNCHANGED <<vertices, normals, textures, faces, lineNo, lastLine,
                   matrixVars, triangleVars, mainVars, rcall, resolution, zbuffer,
                   pixels, drawColor, frame, scan, face, queue, camera,
                   projection, steps>>

\* Renderer::new, the depth buffer, the camera, the view port, and
\* sdl_context.event_pump()?
EventPump(ok) ==
    /\ pc = "event_pump"
    /\ Try(ok, "Clear", "Err(event_pump)")
    /\ zbuffer' = IF ok THEN ClearDepth(resolution) ELSE zbuffer
    /\ camera' = IF ok THEN StartCamera ELSE camera
    /\ UNCHANGED <<loaderVars, matrixVars, triangleVars, mainVars, rcall, resolution,
                   pixels, drawColor, frame, scan, mesh, face, queue,
                   projection, steps>>

\* Display of the error e that app returned: a String as it is, a
\* RenderError by RenderError::fmt
Display(e, loaded) ==
    CASE e = "Err(ContextError)" -> <<"Unable to create context: ", SdlMessage>>
      [] e = "Err(WindowBuildError)" -> <<"Unable to build window: ", SdlMessage>>
      [] e = "Err(IntegerOrSdlError)" -> <<"Unable to initialize SDL: ", SdlMessage>>
      [] e = "Err(from_file)" -> RenderErrorFmt(loaded.err)
      [] OTHER -> <<SdlMessage>>

\* main returns (): the process ends with the exit code 0, whatever app
\* returned, for .map_err(..).ok() lets the result go
ExitCodeOf(r) == 0

\* app(..).map_err(|e| eprintln!("{}", e)).ok(), and main returns
MainReturns ==
    /\ pc = "Done"
    /\ stderr' = IF rstatus = "Ok" THEN stderr
                 ELSE Append(stderr, Display(rstatus, result))
    /\ exitCode' = <<ExitCodeOf(rstatus)>>
    /\ pc' = "Exited"
    /\ UNCHANGED <<loaderVars, matrixVars, triangleVars, rasterVars, mesh, face,
                   queue, camera, projection, steps, rcall>>

NextMain ==
    \/ \E ok \in BOOLEAN : SdlInit(ok)
    \/ \E outcome \in BuildOutcomes : BuildCanvas(outcome)
    \/ \E r \in LoadErrors : LoadModel(r, 0)
    \/ \E n \in 0..MaxFaces : LoadModel(OkModel(<<>>), n)
    \/ \E ok \in BOOLEAN : EventPump(ok)
    \/ NextApp
    \/ MainReturns

SpecMain == InitMain /\ [][NextMain]_vars

\* what app returns when it fails before its loop
SetupErrors ==
    {"Err(sdl2::init)", "Err(ContextError)", "Err(WindowBuildError)",
     "Err(IntegerOrSdlError)", "Err(from_file)", "Err(event_pump)"}

\* the process has ended after a failure of the setup or of the loading
SetupFailed == pc = "Exited" /\ rstatus \in SetupErrors

\* no frame was cleared, rendered or presented, and one line that is not
\* empty is on the diagnostic stream
FailedBeforeLoop ==
    /\ steps = <<>>
    /\ frame = <<>>
    /\ face = 0
    /\ Len(stderr) = 1
    /\ stderr[1] # <<>>

\* C21: when the process has ended after a failure of the surface setup or
\* of the mesh loading, no frame was cleared, rendered or presented, one
\* message is on the diagnostic stream, and the exit code is not 0.
C21_SetupFailureExitsNonZero ==
    SetupFailed => (FailedBeforeLoop /\ exitCode # <<0>>)

-----------------------------------------------------------------------------
(* Renderer::render_face (src/src/renderer.rs:112-156), called on a canvas *)
(* of 8 by 8 pixels with the view port and the first projection of app.    *)
(* The vertices of the faces have z = 0 and whole x and y, so that their   *)
(* points on the screen are whole numbers, as the model of the rasterizer  *)
(* takes them.                                                             *)

FracMul(a, b) == Frac(a[1] * b[1], a[2] * b[2])

\* a / b for b other than 0
FracDiv(a, b) ==
    IF b[1] > 0 THEN Frac(a[1] * b[2], a[2] * b[1])
    ELSE Frac(-(a[1] * b[2]), a[2] * (-b[1]))

FaceResolution == [width |-> 8, height |-> 8]

\* Mat4x4f::viewport(w / 8, h / 8, w * 3 / 4, h * 3 / 4): the entries
\* width / 2, x + width / 2, height / 2, y + height / 2 of the matrix
ViewPort(res) ==
    [sx |-> Frac(3 * res.width, 8), tx |-> Frac(res.width, 2),
     sy |-> Frac(3 * res.height, 8), ty |-> Frac(res.height, 2)]

\* projection * Mat4x1f::from(v): the fourth row gives z * (-1 / camera.z) + 1
Projected(v, pe) ==
    <<<<v[1], 1>>, <<v[2], 1>>, <<v[3], 1>>, FracAdd(FracScale(v[3], pe), <<1, 1>>)>>

\* view_port * h
Ported(h, vp) ==
    <<FracAdd(FracMul(vp.sx, h[1]), FracMul(vp.tx, h[4])),
      FracAdd(FracMul(vp.sy, h[2]), FracMul(vp.ty, h[4])),
      h[3], h[4]>>

\* a fraction that is a whole number, as that number
WholePart(f) == f[1] \div f[2]

\* Vec3f::from(Mat4x1f): the first three rows divided by the fourth
Divided(h) ==
    <<WholePart(FracDiv(h[1], h[4])), WholePart(FracDiv(h[2], h[4])),
      WholePart(FracDiv(h[3], h[4]))>>

\* (view_port * projection * Mat4x1f::from(v)).into()
ScreenPoint(v, vp, pe) == Divided(Ported(Projected(v, pe), vp))

\* let light_direction = Vec3f::new(0.0, 0.0, 1.0)
LightDirection == <<0, 0, 1>>

\* the colours of a face without three normals
VertexColours == "RGB(255,0,0), RGB(0,255,0), RGB(0,0,255)"

\* light_direction.dot(normal) for every normal, those above 0 kept
Intensities(light, ns) ==
    SelectSeq([i \in 1..Len(ns) |-> Dot(light, ns[i])], LAMBDA x : x > 0)

\* Vec3f::new(255.0, 255.0, 255.0) * intensity, for every intensity: the
\* colours are named by the intensities
LitColours(is) == "RGB(255,255,255) * " \o ToString(is)

\* a test that lets a face of more than three vertices through
IsTriangle_OrMore(n) == n >= 3

\* face.vertices.len() != 3 is false
IsTriangle(n) == n = 3

\* render_face returns Ok(()) and has touched nothing
Undrawn(zb, px, dc) ==
    [zbuffer |-> zb, pixels |-> px, drawColor |-> dc, scan |-> <<>>,
     draws |-> 0, status |-> "Ok"]

\* the face has three vertices, on the screen the triangle t
RenderLit(zb, px, dc, res, t, ns, is, failAt) ==
    IF Len(ns) # 3
    THEN RenderTriangleFn(zb, px, dc, res, t, VertexColours, failAt)
    ELSE IF Len(is) = 3
    THEN RenderTriangleFn(zb, px, dc, res, t, LitColours(is), failAt)
    ELSE Undrawn(zb, px, dc)

\* Renderer::render_face
RenderFaceFn(zb, px, dc, res, f, light, vp, pe, failAt) ==
    IF ~IsTriangle(Len(f.vertices)) THEN Undrawn(zb, px, dc)
    ELSE RenderLit(zb, px, dc, res,
                   TriangleNew(ScreenPoint(f.vertices[1], vp, pe),
                               ScreenPoint(f.vertices[2], vp, pe),
                               ScreenPoint(f.vertices[3], vp, pe)),
                   f.normals, Intensities(light, f.normals), failAt)

FaceWith(vs, ns) == [vertices |-> vs, textures |-> <<>>, normals |-> ns]

WideCorners == <<<<-1, -1, 0>>, <<1, -1, 0>>, <<-1, 1, 0>>>>
SmallCorners == <<<<0, 0, 0>>, <<1, 0, 0>>, <<0, 1, 0>>>>
Towards == <<<<0, 0, 1>>, <<0, 3, 4>>, <<0, 0, 2>>>>

\* the faces of the model: of two, three and four vertices, without
\* normals, with two, and with three that all face the light, that face it
\* but for one that faces away or lies across it, or that all face away
ModelFaces ==
    { FaceWith(SubSeq(SmallCorners, 1, 2), <<>>),
      FaceWith(WideCorners \o <<<<1, 1, 0>>>>, Towards),
      FaceWith(SmallCorners, <<>>),
      FaceWith(SmallCorners, SubSeq(Towards, 1, 2)),
      FaceWith(SmallCorners, Towards),
      FaceWith(WideCorners, Towards),
      FaceWith(WideCorners, <<<<0, 0, 1>>, <<0, 0, -1>>, <<0, 0, 1>>>>),
      FaceWith(SmallCorners, <<<<0, 0, 1>>, <<0, 0, 1>>, <<1, 0, 0>>>>),
      FaceWith(WideCorners, <<<<0, 0, -1>>, <<0, -3, -4>>, <<0, 0, -2>>>>) }

\* a Renderer, a canvas and a depth buffer as app builds them
InitFace ==
    /\ vertices = <<>>
    /\ normals = <<>>
    /\ textures = <<>>
    /\ faces = <<>>
    /\ lineNo = 0
    /\ lastLine = <<>>
    /\ result = OkModel(<<>>)
    /\ resolution = FaceResolution
    /\ zbuffer = ClearDepth(resolution)
    /\ pixels = ClearCanvas(resolution)
    /\ drawColor = Black
    /\ frame = <<>>
    /\ scan = <<>>
    /\ rstatus = "Face"
    /\ NoMatrix
    /\ NoTriangle
    /\ NoApp
    /\ NoMain
    /\ rcall = [op |-> "none"]

\* the buffers after render_face has returned r
FaceCalled(f, r) ==
    /\ zbuffer' = r.zbuffer
    /\ pixels' = r.pixels
    /\ drawColor' = r.drawColor
    /\ scan' = r.scan
    /\ rstatus' = IF r.status = "Ok" THEN "Face" ELSE r.status
    /\ rcall' = [op |-> "render_face", face |-> f, result |-> r.status]

\* renderer.render_face(canvas, zbuffer, light_direction, f, view_port,
\* projection), one call after another on the same buffers
CallRenderFace(f, failAt) ==
    /\ rstatus = "Face"
    /\ Len(frame) < MaxDraws
    /\ frame' = Append(frame, f)
    /\ FaceCalled(f, RenderFaceFn(zbuffer, pixels, drawColor, resolution, f,
                                  LightDirection, ViewPort(resolution),
                                  ProjectionEntry(StartCamera), failAt))
    /\ UNCHANGED <<loaderVars, matrixVars, triangleVars, appVars, mainVars,
                   resolution>>

NextFace == \E f \in ModelFaces, failAt \in DrawFailures : CallRenderFace(f, failAt)

SpecFace == InitFace /\ [][NextFace]_vars

\* the step is a call of render_face
StepFace == Len(frame') = Len(frame) + 1 /\ rcall'.op = "render_face"

\* the normals of the face that give an intensity above 0
LitNormals(f) == {i \in 1..Len(f.normals) : f.normals[i][3] > 0}

\* the face has not three vertices, or three normals that do not all give
\* an intensity above 0
ToSkip(f) ==
    \/ Len(f.vertices) # 3
    \/ (Len(f.normals) = 3 /\ Cardinality(LitNormals(f)) < 3)

\* the pixels the step has painted
Painted == {i \in DOMAIN pixels : pixels'[i] # pixels[i]}

\* C22: a call of render_face for a face that has not exactly three
\* vertices, or that has three normals of which fewer than three give an
\* intensity above 0, returns Ok and leaves the canvas and the depth buffer
\* as they were; the pixels a call paints for a face of three normals carry
\* the shade of all three vertices, each an intensity above 0 times white.
C22_SkippedFacesLeaveNoTrace ==
    [][ StepFace =>
          /\ ToSkip(rcall'.face)
             => /\ rcall'.result = "Ok"
                /\ pixels' = pixels
                /\ zbuffer' = zbuffer
                /\ drawColor' = drawColor
          /\ Len(rcall'.face.normals) = 3
             => \A i \in Painted :
                   /\ \A k \in 1..3 : rcall'.face.normals[k][3] > 0
                   /\ pixels'[i].fn = "RGB(255,255,255) * " \o
                         ToString(<<rcall'.face.normals[1][3],
                                    rcall'.face.normals[2][3],
                                    rcall'.face.normals[3][3]>>)
      ]_vars

\* a face of three vertices and three normals, one of them not towards the
\* light, was passed to render_face after a face that was drawn
C22_Witness ==
    /\ rcall.op = "render_face"
    /\ Len(rcall.face.vertices) = 3
    /\ Len(rcall.face.normals) = 3
    /\ ToSkip(rcall.face)
    /\ Len(frame) >= 2
    /\ \E i \in DOMAIN pixels : pixels[i] # Black
    /\ \E i \in DOMAIN zbuffer : zbuffer[i] # F64_MIN

-----------------------------------------------------------------------------
(* Renderer::render_line (src/src/renderer.rs:20-55): the line between two *)
(* points of whole coordinates, one draw_point a pixel.  A point is a pair *)
(* <<x, y>>.  The coordinates are small, so the i32 arithmetic of the code *)
(* never wraps.                                                            *)

\* the largest coordinate of an end of a line
MaxLine == 2

LinePoints == (0..MaxLine) \X (0..MaxLine)

\* no draw_point fails, or the second one does
LineFailures == {0, 2}

PointError == "Err(draw_point)"

White == [fn |-> "RGB(255,255,255)", at |-> <<>>]

\* Point::new(p.y, p.x)
Transposed(p) == <<p[2], p[1]>>

\* (p0.x - p1.x).abs() < (p0.y - p1.y).abs()
Steep(p0, p1) == Abs(p0[1] - p1[1]) < Abs(p0[2] - p1[2])

\* the ends in the order they were given
LeftFirst_AsGiven(a, b) == <<a, b>>

\* if p0.x > p1.x { (p1, p0) } else { (p0, p1) }
LeftFirst(a, b) == IF a[1] > b[1] THEN <<b, a>> ELSE <<a, b>>

\* the same with y always stepping upwards
LineOf_Upwards(ends, steep, res, colour) ==
    [last |-> ends[2][1],
     dx |-> ends[2][1] - ends[1][1],
     derr2 |-> Abs(ends[2][2] - ends[1][2]) * 2,
     iy |-> 1,
     steep |-> steep, res |-> res, colour |-> colour]

\* what the loop of render_line does not change: the last x, dx, derr2,
\* iy, steep, and the canvas' size and draw colour
LineOf(ends, steep, res, colour) ==
    [last |-> ends[2][1],
     dx |-> ends[2][1] - ends[1][1],
     derr2 |-> Abs(ends[2][2] - ends[1][2]) * 2,
     iy |-> IF ends[2][2] > ends[1][2] THEN 1 ELSE -1,
     steep |-> steep, res |-> res, colour |-> colour]

\* canvas.draw_point(p): a point off the canvas is clipped
DrawnPoint(st, p, ln) ==
    [pixels |-> PutPixel(st.pixels, ln.res, p[1], p[2], ln.colour),
     drawn |-> Append(st.drawn, p),
     status |-> st.status]

\* for x in p0.x..=p1.x { .. }, from x on, with y and err2 as they are; the
\* draw_point numbered failAt returns Err and `?` returns it
RECURSIVE LineFrom(_, _, _, _, _, _)
LineFrom(st, x, y, err2, ln, failAt) ==
    IF x > ln.last THEN [st EXCEPT !.status = "Ok"]
    ELSE IF Len(st.drawn) + 1 = failAt THEN [st EXCEPT !.status = PointError]
    ELSE LineFrom(DrawnPoint(st, IF ln.steep THEN <<y, x>> ELSE <<x, y>>, ln),
                  x + 1,
                  IF err2 + ln.derr2 > ln.dx THEN y + ln.iy ELSE y,
                  IF err2 + ln.derr2 > ln.dx
                  THEN err2 + ln.derr2 - ln.dx * 2 ELSE err2 + ln.derr2,
                  ln, failAt)

\* the loop entered at the left end
LineBetween(px, ends, steep, res, colour, failAt) ==
    LineFrom([pixels |-> px, drawn |-> <<>>, status |-> "Drawing"],
             ends[1][1], ends[1][2], 0, LineOf(ends, steep, res, colour), failAt)

\* Renderer::render_line
RenderLineFn(px, res, colour, p0, p1, failAt) ==
    IF Steep(p0, p1)
    THEN LineBetween(px, LeftFirst(Transposed(p0), Transposed(p1)), TRUE,
                     res, colour, failAt)
    ELSE LineBetween(px, LeftFirst(p0, p1), FALSE, res, colour, failAt)

\* a Renderer and a canvas whose draw colour is white
InitLine ==
    /\ vertices = <<>>
    /\ normals = <<>>
    /\ textures = <<>>
    /\ faces = <<>>
    /\ lineNo = 0
    /\ lastLine = <<>>
    /\ result = OkModel(<<>>)
    /\ resolution = [width |-> MaxWidth, height |-> MaxHeight]
    /\ zbuffer = <<>>
    /\ pixels = ClearCanvas(resolution)
    /\ drawColor = White
    /\ frame = <<>>
    /\ scan = <<>>
    /\ rstatus = "Line"
    /\ NoMatrix
    /\ NoTriangle
    /\ NoApp
    /\ NoMain
    /\ rcall = [op |-> "none"]

\* the canvas after render_line has returned r, and the call on record
LineCalled(p0, p1, r) ==
    /\ pixels' = r.pixels
    /\ scan' = r.drawn
    /\ rcall' = [op |-> "render_line", p0 |-> p0, p1 |-> p1,
                 drawn |-> r.drawn, result |-> r.status]
    /\ frame' = Append(frame, rcall')

\* renderer.render_line(canvas, p0, p1): a call, and one more call on the
\* same canvas
CallRenderLine(p0, p1, failAt) ==
    /\ rstatus = "Line"
    /\ Len(frame) <= 1
    /\ LineCalled(p0, p1, RenderLineFn(pixels, resolution, drawColor, p0, p1, failAt))
    /\ UNCHANGED <<loaderVars, matrixVars, triangleVars, appVars, mainVars,
                   resolution, zbuffer, drawColor, rstatus>>

NextLine ==
    \E p0 \in LinePoints, p1 \in LinePoints, failAt \in LineFailures :
        CallRenderLine(p0, p1, failAt)

SpecLine == InitLine /\ [][NextLine]_vars

\* the points of a sequence, each transposed
TransposedAll(ps) == [i \in 1..Len(ps) |-> <<ps[i][2], ps[i][1]>>]

\* a sequence from its last element to its first
Backwards(ps) == [i \in 1..Len(ps) |-> ps[Len(ps) + 1 - i]]

PointsOf(ps) == {ps[i] : i \in 1..Len(ps)}

\* two calls of render_line have returned Ok
TwoLines == Len(frame) = 2 /\ frame[1].result = "Ok" /\ frame[2].result = "Ok"

\* the second call had the ends of the first the other way round
Reversed == frame[2].p0 = frame[1].p1 /\ frame[2].p1 = frame[1].p0

\* the second call had the ends of the first with x and y exchanged
AxesSwapped ==
    /\ frame[2].p0 = <<frame[1].p0[2], frame[1].p0[1]>>
    /\ frame[2].p1 = <<frame[1].p1[2], frame[1].p1[1]>>

\* the line of a call goes up as much as it goes along, x and y changing
\* in opposite directions
AntiDiagonal(c) ==
    /\ c.p1[1] # c.p0[1]
    /\ c.p1[1] - c.p0[1] = -(c.p1[2] - c.p0[2])

\* C23: a call of render_line and the call with the two ends exchanged draw
\* the same sequence of pixels; a call and the call with x and y of both
\* ends exchanged draw pixels that are the transposes of each other, equal
\* slopes included, in the same order but for a line of slope -1, which
\* both calls draw from its left end.
C23_LineSymmetric ==
    TwoLines =>
        /\ Reversed => frame[2].drawn = frame[1].drawn
        /\ AxesSwapped =>
              /\ PointsOf(frame[2].drawn) = PointsOf(TransposedAll(frame[1].drawn))
              /\ Len(frame[2].drawn) = Len(frame[1].drawn)
              /\ frame[2].drawn =
                    IF AntiDiagonal(frame[1])
                    THEN Backwards(TransposedAll(frame[1].drawn))
                    ELSE TransposedAll(frame[1].drawn)

\* a line from right to left that is not level was drawn after the same
\* line from left to right
C23_Witness ==
    /\ TwoLines
    /\ Reversed
    /\ frame[1].p0[1] < frame[1].p1[1]
    /\ frame[1].p0[2] # frame[1].p1[2]
    /\ Len(frame[2].drawn) = 3

\* a call for a steep line was followed by the call for its transpose
C23_WitnessAxes ==
    /\ TwoLines
    /\ AxesSwapped
    /\ Abs(frame[1].p1[1] - frame[1].p0[1]) = 1
    /\ Abs(frame[1].p1[2] - frame[1].p0[2]) = 2

-----------------------------------------------------------------------------
(* C24 *)

\* the pixel whose index in the depth buffer is i
PixelOf(res, i) == <<i % res.width, i \div res.width>>

\* the entries of the canvas and of the depth buffer the step has written
Written == {i \in DOMAIN pixels : pixels'[i] # pixels[i] \/ zbuffer'[i] # zbuffer[i]}

\* twice the signed area of the triangle a, b, c on the screen
Area2(a, b, c) == (b[1] - a[1]) * (c[2] - a[2]) - (c[1] - a[1]) * (b[2] - a[2])

\* p lies inside or on the triangle of sh on the screen: it is on no
\* edge's outer side
InsideOrOn(sh, p) ==
    \/ /\ Area2(sh.p1, sh.p2, p) >= 0
       /\ Area2(sh.p2, sh.p3, p) >= 0
       /\ Area2(sh.p3, sh.p1, p) >= 0
    \/ /\ Area2(sh.p1, sh.p2, p) <= 0
       /\ Area2(sh.p2, sh.p3, p) <= 0
       /\ Area2(sh.p3, sh.p1, p) <= 0

\* the fraction f is within [0, 1]
WithinUnit(f) == 0 <= f[1] /\ f[1] <= f[2]

\* C24: every pixel a call of render_triangle_fn paints or gives a depth
\* lies inside or on the triangle, and the three weights the call used for
\* it are all within [0, 1].
C24_WrittenPixelsInsideTriangle ==
    [][ StepRender =>
          \A i \in Written :
             /\ InsideOrOn(frame'[Len(frame')], PixelOf(resolution, i))
             /\ \A k \in 1..3 :
                   WithinUnit(WeightsAt(frame'[Len(frame')],
                                        PixelOf(resolution, i)).val[k])
      ]_vars

-----------------------------------------------------------------------------
(* C25 *)

\* a * p1 + b * p2 + c * p3 along the axis k, for the weights bcs
VerticesCombined(sh, bcs, k) ==
    FracAdd(FracAdd(FracScale(sh.p1[k], bcs[1]), FracScale(sh.p2[k], bcs[2])),
            FracScale(sh.p3[k], bcs[3]))

\* the triangle of sh with every vertex at the depth 0
Flattened(sh) ==
    [sh EXCEPT !.p1 = <<sh.p1[1], sh.p1[2], 0>>,
               !.p2 = <<sh.p2[1], sh.p2[2], 0>>,
               !.p3 = <<sh.p3[1], sh.p3[2], 0>>]

\* C25: for every pixel (x, y) a call of render_triangle_fn paints, the
\* weights it was painted with combine the three vertices to a point whose
\* screen coordinates are (x, y), and they are the weights of the triangle
\* with the same x and y and all depths alike.
C25_WeightsLocateThePixel ==
    [][ StepRender =>
          \A i \in Painted :
             /\ VerticesCombined(frame'[Len(frame')], pixels'[i].at, 1)
                   = <<PixelOf(resolution, i)[1], 1>>
             /\ VerticesCombined(frame'[Len(frame')], pixels'[i].at, 2)
                   = <<PixelOf(resolution, i)[2], 1>>
             /\ WeightsAt(Flattened(frame'[Len(frame')]), PixelOf(resolution, i))
                   = Some(pixels'[i].at)
      ]_vars

-----------------------------------------------------------------------------
(* C26, checked under SpecLoader *)

\* the segment is a number greater than n
Beyond(seg, n) == seg # <<>> /\ ParseUsize(seg).ok /\ ParseUsize(seg).val > n

\* the first n elements of s
FirstN(s, n) == SubSeq(s, 1, n)

\* the lists of the loader only grow at their end
C26_OnlyAppended ==
    /\ FirstN(faces', Len(faces)) = faces
    /\ FirstN(vertices', Len(vertices)) = vertices
    /\ FirstN(textures', Len(textures)) = textures
    /\ FirstN(normals', Len(normals)) = normals

\* the face f read from the corners cs holds the elements that vs, ts and
\* ns, the lists as they were before the line, have at the corners' indices
C26_Resolved(cs, f, vs, ts, ns) ==
    /\ Len(f.vertices) = Len(cs)
    /\ \A k \in 1..Len(cs) :
          /\ IndexOf(Segments(cs[k])[1]) \in 1..Len(vs)
          /\ f.vertices[k] = vs[IndexOf(Segments(cs[k])[1])]
    /\ f.textures # <<>>
       => \A k \in 1..Len(cs) :
             /\ IndexOf(Segments(cs[k])[2]) \in 1..Len(ts)
             /\ f.textures[k] = ts[IndexOf(Segments(cs[k])[2])]
    /\ f.normals # <<>>
       => \A k \in 1..Len(cs) :
             /\ IndexOf(Segments(cs[k])[3]) \in 1..Len(ns)
             /\ f.normals[k] = ns[IndexOf(Segments(cs[k])[3])]

\* the load has failed at the line with the message msg and the index i
C26_OutOfBounds(res, line, msg, i) ==
    /\ res.tag = "Err"
    /\ res.err.variant = "FaceParsingError"
    /\ res.err.msg = <<"at line ", line, ": ", msg, i>>

\* the first corner that refers to a vertex, texture or normal beyond those
\* read before the line makes the load fail at the line
C26_Ahead(cs, wf, nv, nt, nn, line, res) ==
    \A k \in 1..Len(cs) :
        (\A j \in 1..(k - 1) : wf[j]) =>
            LET segs == Segments(cs[k])
            IN  /\ Beyond(segs[1], nv)
                   => C26_OutOfBounds(res, line, "face index out of bounds: ",
                                      ParseUsize(segs[1]).val)
                /\ (IsIndex(segs[1], 1, nv) /\ Len(segs) >= 2 /\ Beyond(segs[2], nt))
                   => C26_OutOfBounds(res, line, "texture index out of bounds: ",
                                      ParseUsize(segs[2]).val)
                /\ (/\ IsIndex(segs[1], 1, nv)
                    /\ Len(segs) >= 3
                    /\ segs[2] = <<>> \/ IsIndex(segs[2], 0, nt)
                    /\ Beyond(segs[3], nn))
                   => C26_OutOfBounds(res, line, "normal index out of bounds: ",
                                      ParseUsize(segs[3]).val)

\* C26: the loader resolves the indices of a face line against the
\* vertices, textures and normals of the lines read before it: a face that
\* is read holds the elements those lists had at its indices; an index
\* beyond what was read before the line makes the load fail at that line
\* with an out-of-bounds error; and no later line changes a face, the Model
\* returned being the faces as they were read.
C26_IndicesResolveInFileOrder ==
    [][ /\ (StepRead /\ result' = Running) => C26_OnlyAppended
        /\ (StepRead /\ IsLineOf(lastLine', <<"f">>) /\ result' = Running)
           => /\ Len(faces') = Len(faces) + 1
              /\ C26_Resolved(CornersOf(lastLine'), LastOf(faces'),
                              vertices, textures, normals)
        /\ StepRead
           => C26_Ahead(FaceCornersOf(lastLine'),
                        WellFormedFlags(FaceCornersOf(lastLine'), Len(vertices),
                                        Len(textures), Len(normals)),
                        Len(vertices), Len(textures), Len(normals),
                        lineNo + 1, result')
        /\ (result = Running /\ result'.tag = "Ok") => result'.model = faces
      ]_vars

\* a vertex line was read after a face line that refers to the second of
\* two vertices, and the face is as it was read
C26_Witness ==
    /\ result = Running
    /\ IsLineOf(lastLine, <<"v">>)
    /\ Len(vertices) >= 3
    /\ Len(faces) = 1
    /\ faces[1].vertices = <<vertices[2]>>
    /\ vertices[2] # vertices[1]
    /\ vertices[2] # vertices[3]

-----------------------------------------------------------------------------
(* C27 *)

\* the pixels a and b differ by 1 along the axis major and by 1 at most
\* along the axis minor
NextTo(a, b, major, minor) ==
    /\ Abs(b[major] - a[major]) = 1
    /\ Abs(b[minor] - a[minor]) <= 1

\* the pixels ps run from one of p0, p1 to the other, |dx| or |dy| + 1 of
\* them, whichever is more, each next to the one before it
C27_Holds(ps, p0, p1, dx, dy) ==
    /\ Len(ps) = (IF dx >= dy THEN dx ELSE dy) + 1
    /\ \/ ps[1] = p0 /\ ps[Len(ps)] = p1
       \/ ps[1] = p1 /\ ps[Len(ps)] = p0
    /\ \A i \in 1..(Len(ps) - 1) :
          /\ dx >= dy => NextTo(ps[i], ps[i + 1], 1, 2)
          /\ dy >= dx => NextTo(ps[i], ps[i + 1], 2, 1)

\* C27: a call of render_line that returns Ok has drawn max(|dx|, |dy|) + 1
\* pixels, the first and the last of them the two ends of the line, each
\* pixel 1 from the one before it along the major axis and 1 at most along
\* the minor axis; for p0 = p1 that is the one pixel p0.
C27_LineIsConnected ==
    (rcall.op = "render_line" /\ rcall.result = "Ok")
    => /\ C27_Holds(rcall.drawn, rcall.p0, rcall.p1,
                    Abs(rcall.p1[1] - rcall.p0[1]), Abs(rcall.p1[2] - rcall.p0[2]))
       /\ rcall.p0 = rcall.p1 => rcall.drawn = <<rcall.p0>>

\* a steep line that comes down from left to right was drawn in three
\* pixels
C27_Witness ==
    /\ rcall.op = "render_line"
    /\ rcall.result = "Ok"
    /\ rcall.p1[1] - rcall.p0[1] = 1
    /\ rcall.p1[2] - rcall.p0[2] = -2
    /\ Len(rcall.drawn) = 3

====
